---------------------------- MODULE Spec2Model ----------------------------
(***************************************************************************)
(* Holopod: Container Manager Run stream, Isolation Runner exit paths,     *)
(* network policy enforcement / rule compilation, the Bastion network     *)
(* pool with its state file, and the Bastion's gRPC handlers.  Each        *)
(* subsystem has its own variables and its own specifications (SpecRun,    *)
(* SpecRunner, SpecPolicy, SpecPool, SpecStore, SpecReload, SpecBastion,   *)
(* SpecChains, SpecManager);                                               *)
(* a specification leaves the variables of the other subsystems at their   *)
(* initial values.                                                         *)
(*                                                                         *)
(* Time in SpecRun is counted in ticks of 5 seconds (the period of the     *)
(* heartbeat ticker); every timeout of the Run handler is a multiple.      *)
(***************************************************************************)
EXTENDS Integers, Sequences, FiniteSets, TLC

(***************************************************************************)
(* Bounds of the model (not program constants).                            *)
(***************************************************************************)
MaxInbox == 1
MaxSent == 1
MaxStdin == 1
MaxStdinFlood == 12

(***************************************************************************)
(* Program constants of the Run handler, in ticks of 5 s where timed.      *)
(***************************************************************************)
StdinChanCap == 10
HeartbeatChanCap == 1
ExitChanCap == 1
HeartbeatTimeout == 6
WaitTimeout == 2
DeferTimeout == 1
DefaultTerminateTimeout == 1
ClientHeartbeatEvery == 3
CleanupAfter == 12

VARIABLES
  \* ---- Run stream (service.go Run) ----
  hpc,            \* position of the Run handler goroutine
  containerID,    \* Run's local containerID
  cleanupDone,    \* Run's local cleanupDone
  sent,           \* server messages sent on the stream, in order
  status,         \* status the stream was closed with ("open" while open)
  errCh,          \* errCh, capacity 2
  stdinCh,        \* stdinCh, capacity 10: [len, closed]
  heartbeatCh,    \* heartbeatCh, capacity 1: number of buffered signals
  sinceHeartbeat, \* ticks since lastHeartbeat
  tickPending,    \* ticker.C holds a tick
  hbpc,           \* heartbeat monitor goroutine
  rpc,            \* receive goroutine
  fpc,            \* stdin forwarder goroutine
  inbox,          \* client messages sent and not yet received
  clientState,    \* "open" or "halfClosed" (client closed its send side)
  ctxDone,        \* stream.Context() is done
  panicked,       \* a goroutine panicked: the manager process is gone
  c,              \* the workload (container.Container) of this stream
  term,           \* TerminateContainer calls in progress, by caller
  waitLeft,       \* ticks left of WaitContainer's timeout
  nStdin,         \* number of Stdin requests the client has written
  hist,           \* history: facts about the run the claims talk about
  \* ---- Isolation Runner (cmd/isolation-runner/main.go) ----
  runner,         \* the runner process: position, locals, resources it holds
  naming,         \* a chain name on its way from the workload's ID to the
                  \* Bastion's check of it
  \* ---- network policy: validation and rule compilation ----
  pol,            \* one configuration on its way from the runner to the firewall
  \* ---- Bastion network pool (networkpool.Pool) ----
  nets,           \* p.state.Networks, and what Docker holds for each name
  configIndex,    \* p.state.ConfigIndex
  call,           \* the Acquire or Release call each workload has in progress
  cl,             \* the cleanup goroutine (runCleanup)
  grant,          \* history: the workloads each lease was handed to and that
                  \* have not released it
  alloc,          \* history: configHash and subnet of every Acquire that
                  \* returned a result since the last Release
  store,          \* the state file, and the persist calls in progress
  \* ---- Bastion gRPC server (service.Server) and the host's iptables ----
  srv,            \* the chains, s.chainIPs, and the last call with its response
  chainCall,      \* the SetupChain or CleanupChain call each client has in
                  \* progress, where the handlers run concurrently
  \* ---- Container Manager registry (manager.go) ----
  mgr             \* m.containers, the Run streams, the clock and the last sweep

runVars == <<hpc, containerID, cleanupDone, sent, status, errCh, stdinCh,
             heartbeatCh, sinceHeartbeat, tickPending, hbpc, rpc, fpc, inbox,
             clientState, ctxDone, panicked, c, term, waitLeft, nStdin, hist>>

\* the variables a Run stream step leaves alone
poolVars == <<nets, configIndex, call, cl, grant, alloc, store>>

notRun == <<runner, naming, pol, poolVars, srv, chainCall, mgr>>

\* the variables a runner step leaves alone
notRunner == <<runVars, naming, pol, poolVars, srv, chainCall, mgr>>

\* the variables a policy step leaves alone
notPolicy == <<runVars, runner, naming, poolVars, srv, chainCall, mgr>>

\* the variables a pool step leaves alone
notPool == <<runVars, runner, naming, pol, srv, chainCall, mgr>>

\* the variables a step of the Bastion server's chain handlers leaves alone
notServer == <<runVars, runner, naming, pol, poolVars, chainCall, mgr>>
notManager == <<runVars, runner, naming, pol, poolVars, srv, chainCall>>

\* the variables a step of a concurrent chain handler leaves alone
notChains == <<runVars, runner, naming, pol, poolVars, mgr>>

\* the variables a step of the chain name's derivation leaves alone
notNaming == <<runVars, runner, pol, poolVars, srv, chainCall, mgr>>

vars == <<runVars, runner, naming, pol, poolVars, srv, chainCall, mgr>>

Min(a, b) == IF a < b THEN a ELSE b

(***************************************************************************)
(* Client messages (pb.RunRequest).  One record shape for all kinds.       *)
(***************************************************************************)
ExitCodes == {0, 1}
KilledCode == -1
TerminateTimeouts == {0, 2}

\* Terminate.force is passed on but has no effect once timeoutSecs is non-zero,
\* and Run replaces a zero timeout by 5 (service.go:157-160): it is left out.
Msg(k, id, t) == [kind |-> k, id |-> id, timeout |-> t]
CreateMsgs == {Msg("Create", id, 0) : id \in {"", "c1"}}
TerminateMsgs == {Msg("Terminate", "", t) : t \in TerminateTimeouts}
StreamMsgs == {Msg(k, "", 0) : k \in {"Stdin", "CloseStdin", "Heartbeat"}}
ClientMsgs == CreateMsgs \cup TerminateMsgs \cup StreamMsgs

Callers == {"recv", "defer"}
TermIdle == [pc |-> "idle", left |-> 0]

NewContainer ==
  [registered |-> FALSE, state |-> "CREATED", alive |-> FALSE,
   monitored |-> FALSE, pcode |-> 0, exitCh |-> <<>>, cleanupAfterSet |-> FALSE,
   finishAge |-> 0, chClosed |-> FALSE,
   readers |-> FALSE]   \* the readOutput goroutines run

NoHist ==
  [deadlineFired |-> FALSE,    \* the heartbeat monitor reported a timeout
   sinceClientHb |-> 0,        \* ticks since the client last sent a Heartbeat
   cancelled |-> FALSE,        \* the stream context was cancelled from outside
   cancelledRunning |-> FALSE, \* ctx was cancelled after Created, workload RUNNING
   forcedByDefer |-> FALSE,    \* the deferred TerminateContainer(id, true, 5) ran
   termCalls |-> 0,            \* number of TerminateContainer calls that reached the workload
   sentOnClosed |-> FALSE]     \* a readOutput goroutine sent on a closed broadcast channel

RunInit ==
  /\ hpc = "recvFirst"
  /\ containerID = ""
  /\ cleanupDone = FALSE
  /\ sent = <<>>
  /\ status = "open"
  /\ errCh = <<>>
  /\ stdinCh = [len |-> 0, closed |-> FALSE]
  /\ heartbeatCh = 0
  /\ sinceHeartbeat = 0
  /\ tickPending = FALSE
  /\ hbpc = "off"
  /\ rpc = "off"
  /\ fpc = "off"
  /\ inbox = <<>>
  /\ clientState = "open"
  /\ ctxDone = FALSE
  /\ panicked = FALSE
  /\ c = NewContainer
  /\ term = [k \in Callers |-> TermIdle]
  /\ waitLeft = 0
  /\ nStdin = 0
  /\ hist = NoHist


\* no configuration is being processed
NoConfig ==
  [DefaultPolicy |-> "deny", BlockMetadata |-> TRUE, AllowDNS |-> FALSE,
   DNSServers |-> <<>>, Whitelist |-> <<>>, Blacklist |-> <<>>]

NoPolicy ==
  [Policy |-> "deny", BlockMetadata |-> TRUE, AllowDns |-> FALSE,
   DnsServers |-> <<>>, Whitelist |-> <<>>, Blacklist |-> <<>>]

PolicyIdle == pol = [pc |-> "idle", cfg |-> NoConfig, policy |-> NoPolicy, rules |-> <<>>]

(***************************************************************************)
(* Bastion server: state  (unnamed/part_009)                               *)
(***************************************************************************)
\* chain names a request may carry: one that matches ISO-[a-f0-9]{16} and the
\* name of a built-in chain
ChainNames == {"ISO-0123456789abcdef", "FORWARD"}

\* the chain names of the model that ValidateChainName accepts
\* (validation_test.go:290-306)
ValidChainNames == {"ISO-0123456789abcdef"}

\* what iptables and ip6tables hold for a chain name
NoChain ==
  [v4 |-> FALSE,      \* the chain exists in iptables
   v6 |-> FALSE,      \* the chain exists in ip6tables
   forward |-> FALSE, \* FORWARD jumps to the chain for the container's address
   rules |-> FALSE]   \* rules were appended to the chain

\* a request of any of the five operations; the fields an operation does not
\* have keep these values
NoRequest ==
  [ChainName |-> "", ContainerIp |-> <<>>, ContainerId |-> "",
   hasPolicy |-> FALSE, Policy |-> NoPolicy,
   hasNetworkConfig |-> FALSE, params |-> "p1", ConfigHash |-> "h1",
   NetworkName |-> 0, ForceCleanup |-> FALSE]

\* no call yet
NoCall ==
  [op |-> "none",
   invalid |-> FALSE,                \* history: an input of the request was malformed
   missing |-> FALSE,                \* history: the request lacked a required message
   Success |-> FALSE, Error |-> "",  \* the response
   status |-> "OK",                  \* the gRPC status the call ended with
   ran |-> 0]                        \* iptables and ip6tables commands run

\* service.New (part_009:27-34) on a host without chains
NewServer ==
  [chains |-> [n \in ValidChainNames |-> NoChain],
   chainIPs |-> [n \in ValidChainNames |-> <<>>],
   last |-> NoCall]

\* the clients of the Bastion whose chain calls may overlap
MaxClients == 2
Clients == 1 .. MaxClients

\* a client without a call in progress; a call keeps its request and, for
\* CleanupChain, the containerIP it read from s.chainIPs (part_009:113-115)
NoChainCall == [pc |-> "idle", req |-> NoRequest, containerIP |-> <<>>]

ServerInit == srv = NewServer /\ chainCall = [k \in Clients |-> NoChainCall]

(***************************************************************************)
(* Container Manager registry: bounds, constants in ticks of 60 s, and the *)
(* state no stream has touched.                                            *)
(***************************************************************************)
MaxContainers == 2
MaxNow == 6
CleanupDelay == 1
SweepEvery == 5

Streams == {1, 2, 3}

\* uuid.New (manager.go:90-93): an ID no other stream gets
Uuid == <<"u1", "u2", "u3">>

\* createReq.ContainerId: absent, or an ID of the client's choice
ClientIDs == {"", "c1"}

IDs == {"c1", "u1", "u2", "u3"}

NoWorkload ==
  [registered |-> FALSE, owner |-> 0, state |-> "CREATED", alive |-> FALSE,
   started |-> FALSE, monitored |-> FALSE, finishedAt |-> -1,
   cleanupAfter |-> -1]

\* container.New (part_001:364-385), put into m.containers by stream s
NewWorkload(s) == [NoWorkload EXCEPT !.registered = TRUE, !.owner = s]

NewStream ==
  [pc |-> "recvFirst", containerID |-> "", id |-> "", cleanupDone |-> FALSE,
   created |-> FALSE]

ManagerIdle ==
  mgr = [containers |-> [id \in IDs |-> NoWorkload],
         streams |-> [s \in Streams |-> NewStream],
         now |-> 0, swept |-> 0]

(***************************************************************************)
(* Bastion network pool: state  (unnamed/part_010)                         *)
(***************************************************************************)
MaxNetworks == 2
MaxReuse == 1
MaxSubnets == 2

\* SubnetConfig.BaseIP (defaultSubnetRangeBase), as the bytes of baseIP.To4()
BaseIP == <<10, 20, 0, 0>>

Names == 1..MaxNetworks
Hashes == {"h1", "h2"}
Workloads == {"w1", "w2"}
None == "none"

\* a name no network was created under yet
NoEntry ==
  [present |-> FALSE,     \* the name is a key of p.state.Networks
   used |-> FALSE,        \* a network was created under this name
   docker |-> FALSE,      \* the Docker network exists
   ConfigHash |-> "h1",
   Subnet |-> <<>>,
   CurrentContainer |-> None,
   CleanupAt |-> FALSE,   \* CleanupAt is not nil
   expired |-> FALSE,     \* CleanupAt is in the past
   ReuseCount |-> 0]

\* who calls persist: an Acquire or Release of a workload, or the cleanup cycle
Persisters == Workloads \cup {"cleanup"}

\* a file that does not exist; loadState starts from an empty state then
NoFile ==
  [exists |-> FALSE, networks |-> [n \in {} |-> 0],
   config_index |-> [h \in Hashes |-> <<>>]]

\* no state file yet, no persist in progress
NoStore ==
  [disk |-> NoFile,                         \* content of p.stateFile
   tmp |-> NoFile,                          \* content of p.stateFile + ".tmp"
   data |-> [p \in Persisters |-> NoFile],  \* persist's local data
   dropped |-> {}]   \* history: the entries the last validateNetworks deleted

IdleCall ==
  [op |-> "none", pc |-> "idle", hash |-> "h1", net |-> 0, reused |-> FALSE,
   subnet |-> <<>>, cleanedUp |-> FALSE, err |-> "", pooled |-> {}, old |-> 0,
   repeat |-> FALSE]   \* history: the call repeats w's forced Release that just
                       \* returned cleanedUp=true

PoolInit ==
  /\ nets = [n \in Names |-> NoEntry]
  /\ configIndex = [h \in Hashes |-> <<>>]
  /\ call = [w \in Workloads |-> IdleCall]
  /\ cl = [pc |-> "idle", toCleanup |-> {}]
  /\ grant = [n \in Names |-> {}]
  /\ alloc = {}
  /\ store = NoStore

(***************************************************************************)
(* Isolation Runner: main and run  (cmd/isolation-runner/main.go)          *)
(***************************************************************************)
ExitConfigError == 1
ExitSetupError == 2
ExitRuntimeError == 3
ExitTimeout == 124
ExitDockerError == 125
ErrorCodes == {ExitConfigError, ExitSetupError, ExitRuntimeError, ExitDockerError}
ContainerExitCodes == {0, 1}

\* trackedResources with nothing tracked (tracker.go:22-28)
NoResources ==
  [containerID |-> FALSE, networkName |-> FALSE, networkViaBastion |-> FALSE,
   chainName |-> FALSE]

NewRunner ==
  [pc |-> "readInput",
   docker |-> "none",        \* the workload container: none, created, running, exited, removed
   chain |-> FALSE,          \* the workload's iptables chain exists on the Bastion
   chainName |-> FALSE,      \* run's chainName is not ""
   made |-> FALSE,           \* run's tracker exists
   resources |-> NoResources,\* run's tracker.resources
   retTracker |-> FALSE,     \* run returned a non-nil tracker
   tracker |-> FALSE,        \* main's tracker is not nil
   exitCode |-> 0,
   notified |-> FALSE,       \* signal.Notify was called
   stopping |-> FALSE,       \* the signal goroutine took a signal
   path |-> "none",          \* how the process came to its end
   cleanupAllRan |-> FALSE,
   network |-> "unread",     \* the input's network config: unread, valid, invalid
   pulled |-> FALSE,         \* PullImage was called
   bridge |-> "unread",      \* the input's bridge_name: absent, "bridge" or another name
   acquired |-> FALSE,       \* AcquireNetwork was called and gave a lease
   released |-> FALSE]       \* ReleaseNetwork was called

\* no chain name is being derived
NoNaming ==
  [pc |-> "idle",
   containerID |-> <<>>,  \* the ID, as its characters
   chainName |-> <<>>,    \* what GenerateChainName returned
   failed |-> FALSE,      \* GenerateChainName returned an error
   accepted |-> FALSE]    \* the Bastion's ValidateChainName returned nil

RunnerInit == runner = NewRunner /\ naming = NoNaming

\* ResourceTracker.CleanupAll (tracker.go:75-91) on runner state r: the tracked
\* container is stopped and removed, a network acquired via the Bastion is
\* released, the tracked chain is cleaned up
CleanupAll(r) ==
  [r EXCEPT !.docker = IF r.resources.containerID THEN "removed" ELSE @,
            !.released = @ \/ (r.resources.networkName
                                 /\ r.resources.networkViaBastion),
            !.chain = IF r.resources.chainName THEN FALSE ELSE @,
            !.cleanupAllRan = TRUE]

\* run returns (code, tracker)
RunReturns(r, code, path) ==
  [r EXCEPT !.pc = "returned", !.exitCode = code, !.retTracker = r.made,
            !.path = IF r.stopping THEN "signal" ELSE path]

\* getExitCode (main.go:192-224) of an error that is no IsolationError, by the
\* words its text contains
getExitCode(words) ==
  IF words \cap {"timeout", "deadline exceeded"} # {} THEN ExitTimeout
  ELSE IF words \cap {"docker", "daemon"} # {} THEN ExitDockerError
  ELSE IF words \cap {"gvisor", "runtime"} # {} THEN ExitSetupError
  ELSE IF words \cap {"iptables", "network", "bastion"} # {} THEN ExitRuntimeError
  ELSE ExitConfigError

\* "network security validation failed: failed to enforce security rules: ..."
\* (lifecycle_test.go:130-132, network_security.go:257-259)
ValidationFailed == {"network", "validation"}

\* the input's bridge_name (part_011:43-48): absent, "bridge", another name
BridgeNames == {"", "bridge", "iso-br-1"}

\* main.go:49-54 with ReadInputFromStdin (part_011:96-124), which parses the
\* config message and validates nothing of it
ReadInput ==
  /\ runner.pc = "readInput"
  /\ \/ \E net \in {"valid", "invalid"}, bridge \in BridgeNames :
          runner' = [runner EXCEPT !.pc = "setup", !.network = net,
                                   !.bridge = bridge]
     \/ runner' = RunReturns(runner, ExitConfigError, "inputError")
  /\ UNCHANGED notRunner

\* Manager.SetupNetworkViaBastion (config_test.go:216-231): the network the
\* container is put on, and whether a lease was acquired for it
SetupNetworkViaBastion(networkName) ==
  [networkName |-> "bridge", networkViaBastion |-> FALSE, acquired |-> FALSE]

\* main.go:65-74 with lifecycle.SetupContainer (lifecycle_test.go:61-122):
\* the container is created, or setup fails and nothing was created
SetupContainer ==
  /\ runner.pc = "setup"
  /\ \/ runner' = [runner EXCEPT !.pc = "track", !.docker = "created",
                                  !.pulled = TRUE,
                                  !.acquired = SetupNetworkViaBastion(runner.bridge).acquired]
     \/ \E code \in ErrorCodes, pull \in BOOLEAN :
          runner' = RunReturns([runner EXCEPT !.pulled = pull], code, "setupError")
  /\ UNCHANGED notRunner

\* main.go:76-85: viaBastion is whether the manager's network name differs
\* from input.GetBridgeName(), which makes up a new "iso-br-..." name at each
\* call when the input names no bridge (part_011:43-48)
TrackResources ==
  /\ runner.pc = "track"
  /\ runner' = [runner EXCEPT !.pc = "start", !.made = TRUE,
                  !.resources = [NoResources EXCEPT
                     !.containerID = TRUE,
                     !.networkName = TRUE,
                     !.networkViaBastion =
                        SetupNetworkViaBastion(runner.bridge).networkName
                          # runner.bridge]]
  /\ UNCHANGED notRunner

\* main.go:87-95
StartContainer ==
  /\ runner.pc = "start"
  /\ \/ runner' = [runner EXCEPT !.pc = "getIP", !.docker = "running"]
     \/ \E code \in ErrorCodes : runner' = RunReturns(runner, code, "startError")
  /\ UNCHANGED notRunner

\* the workload container exits by itself
ContainerExits ==
  /\ runner.pc \in {"getIP", "isolate", "notify", "waitExit"}
  /\ runner.docker = "running"
  /\ runner' = [runner EXCEPT !.docker = "exited"]
  /\ UNCHANGED notRunner

\* main.go:105-122
GetContainerIP ==
  /\ runner.pc = "getIP"
  /\ \/ runner.docker = "running" /\ runner' = [runner EXCEPT !.pc = "isolate"]
     \/ runner.docker = "exited" /\ runner' = [runner EXCEPT !.pc = "notify"]
     \/ \E code \in ErrorCodes : runner' = RunReturns(runner, code, "ipError")
  /\ UNCHANGED notRunner

\* main.go:126-136 with lifecycle.SetupNetworkIsolation (lifecycle_test.go:
\* 124-164): ValidateNetworkConfig first, then SetupChain and
\* ApplyNetworkPolicy; the chain exists from SetupChain on
SetupNetworkIsolation ==
  /\ runner.pc = "isolate"
  /\ IF runner.network = "invalid"
     THEN runner' = RunReturns(runner, getExitCode(ValidationFailed),
                               "isolationError")
     ELSE \/ runner' = [runner EXCEPT !.pc = "notify", !.chain = TRUE,
                          !.chainName = TRUE, !.resources.chainName = TRUE]
          \/ \E code \in ErrorCodes, chainMade \in BOOLEAN :
               runner' = RunReturns([runner EXCEPT !.chain = chainMade], code,
                                    "isolationError")
  /\ UNCHANGED notRunner

\* main.go:144-154
NotifySignals ==
  /\ runner.pc = "notify"
  /\ runner' = [runner EXCEPT !.pc = "waitExit", !.notified = TRUE]
  /\ UNCHANGED notRunner

\* SIGINT or SIGTERM arrives: before signal.Notify the process dies at once;
\* afterwards the goroutine stops the container (once)
Signal ==
  /\ runner.pc \notin {"ended", "panicked"}
  /\ IF ~runner.notified
     THEN runner' = [runner EXCEPT !.pc = "ended", !.path = "signal"]
     ELSE /\ ~runner.stopping
          /\ runner' = [runner EXCEPT !.stopping = TRUE,
                          !.docker = IF @ = "running" THEN "exited" ELSE @]
  /\ UNCHANGED notRunner

\* main.go:156-168: WaitForExit returns
WaitForExit ==
  /\ runner.pc = "waitExit" /\ runner.docker = "exited"
  /\ \E code \in ContainerExitCodes :
       runner' = [runner EXCEPT !.pc = "cleanupIsolation",
                    !.exitCode = code]
  /\ UNCHANGED notRunner

\* main.go:170-174: CleanupNetworkIsolation only warns on failure
CleanupNetworkIsolation ==
  /\ runner.pc = "cleanupIsolation"
  /\ IF runner.chainName
     THEN \E ok \in BOOLEAN :
            runner' = [runner EXCEPT !.pc = "remove",
                         !.chain = IF ok THEN FALSE ELSE @,
                         !.resources.chainName = FALSE]
     ELSE runner' = [runner EXCEPT !.pc = "remove"]
  /\ UNCHANGED notRunner

\* main.go:176-189: RemoveContainer only warns on failure
RemoveContainer ==
  /\ runner.pc = "remove"
  /\ \E ok \in BOOLEAN :
       runner' = RunReturns(
                   [runner EXCEPT !.docker = IF ok THEN "removed" ELSE @,
                                  !.resources.containerID = FALSE,
                                  !.resources.networkName = FALSE],
                   runner.exitCode, "normal")
  /\ UNCHANGED notRunner

\* main.go:44-45: exitCode, tracker = run(); os.Exit(exitCode).  os.Exit ends
\* the process at once: deferred functions are not run.
MainExit ==
  /\ runner.pc = "returned"
  /\ runner' = [runner EXCEPT !.pc = "ended", !.tracker = runner.retTracker]
  /\ UNCHANGED notRunner

\* run panics somewhere
Panic ==
  /\ runner.pc \notin {"returned", "ended", "panicked"}
  /\ runner' = [runner EXCEPT !.pc = "panicked", !.path = "panic"]
  /\ UNCHANGED notRunner

\* main.go:25-42: the deferred function, run when main unwinds
MainDeferred ==
  /\ runner.pc = "panicked"
  /\ runner' = [(IF runner.tracker THEN CleanupAll(runner) ELSE runner)
                  EXCEPT !.pc = "ended", !.exitCode = ExitRuntimeError]
  /\ UNCHANGED notRunner

NextRunner ==
  \/ ReadInput
  \/ SetupContainer
  \/ TrackResources
  \/ StartContainer
  \/ ContainerExits
  \/ GetContainerIP
  \/ SetupNetworkIsolation
  \/ NotifySignals
  \/ Signal
  \/ WaitForExit
  \/ CleanupNetworkIsolation
  \/ RemoveContainer
  \/ MainExit
  \/ Panic
  \/ MainDeferred

InitRunner == RunInit /\ RunnerInit /\ PolicyIdle /\ PoolInit /\ ServerInit /\ ManagerIdle

SpecRunner == InitRunner /\ [][NextRunner]_vars

\* C3: when the runner process has ended, on whatever path, no workload
\* container and no iptables chain it acquired is left behind, and CleanupAll
\* has run if the tracker still tracked something.
C3_EveryExitReleases ==
  runner.pc = "ended" =>
     /\ runner.docker \in {"none", "removed"}
     /\ ~runner.chain
     /\ (runner.made /\ runner.resources # NoResources) => runner.cleanupAllRan

(***************************************************************************)
(* IP addresses and CIDR blocks (package net as used by the runner and     *)
(* the Bastion).  An address is its sequence of bytes (4 or 16); a CIDR    *)
(* text is the pair of the address and the prefix length it spells out.    *)
(***************************************************************************)
Zeros(n) == [i \in 1..n |-> 0]

Cidr(a, n) == [a |-> a, bits |-> n]

Pow2(k) == 2 ^ k

\* the first k bits of a byte (b & mask)
MaskByte(b, k) == b - (b % Pow2(8 - k))

\* number of mask bits that fall into byte i of a mask of n bits
BitsInByte(n, i) ==
  IF n >= 8 * i THEN 8 ELSE IF n <= 8 * (i - 1) THEN 0 ELSE n - 8 * (i - 1)

\* IP.Mask with CIDRMask(n, 8 * Len(a))
MaskIP(a, n) == [i \in 1..Len(a) |-> MaskByte(a[i], BitsInByte(n, i))]

\* net.ParseCIDR: fails on text that is not an address of 4 or 16 bytes with
\* a prefix length within the address length; the network's IP is masked
ParseCIDR(s) ==
  IF Len(s.a) \in {4, 16} /\ s.bits >= 0 /\ s.bits <= 8 * Len(s.a)
  THEN [ok |-> TRUE, net |-> [ip |-> MaskIP(s.a, s.bits), bits |-> s.bits]]
  ELSE [ok |-> FALSE, net |-> [ip |-> <<>>, bits |-> 0]]

\* IP.To4: the 4-byte form of an IPv4 or IPv4-mapped address, else nil (<<>>)
To4(ip) ==
  IF Len(ip) = 4 THEN ip
  ELSE IF /\ Len(ip) = 16
          /\ \A i \in 1..10 : ip[i] = 0
          /\ ip[11] = 255 /\ ip[12] = 255
       THEN SubSeq(ip, 13, 16)
       ELSE <<>>

\* net.networkNumberAndMask
networkNumberAndMask(n) ==
  IF To4(n.ip) # <<>>
  THEN [ip |-> To4(n.ip),
        bits |-> IF Len(n.ip) = 16
                 THEN (IF n.bits > 96 THEN n.bits - 96 ELSE 0)
                 ELSE n.bits]
  ELSE n

\* IPNet.Contains
Contains(n, ip) ==
  LET x == IF To4(ip) # <<>> THEN To4(ip) ELSE ip
      nm == networkNumberAndMask(n)
  IN  /\ Len(x) = Len(nm.ip)
      /\ \A i \in 1..Len(x) :
           MaskByte(nm.ip[i], BitsInByte(nm.bits, i))
             = MaskByte(x[i], BitsInByte(nm.bits, i))

\* a bug: only one direction is looked at
networksOverlap_OneWay(net1, net2) == Contains(net1, net2.ip)

\* network_security.go:143-146
networksOverlap(net1, net2) == Contains(net1, net2.ip) \/ Contains(net2, net1.ip)

\* detectIPVersion (ipv6_test.go:516-535) of a CIDR text
detectIPVersion(s) == IF To4(s.a) # <<>> THEN 4 ELSE 6

(***************************************************************************)
(* The hardcoded ranges (network_security.go:10-47).                       *)
(***************************************************************************)
LocalhostIPv4 == Cidr(<<127, 0, 0, 0>>, 8)
LocalhostIPv6 == Cidr(Zeros(15) \o <<1>>, 128)
CloudMetadata == Cidr(<<169, 254, 169, 254>>, 32)
LinkLocal == Cidr(<<169, 254, 0, 0>>, 16)
Private10 == Cidr(<<10, 0, 0, 0>>, 8)
Private172 == Cidr(<<172, 16, 0, 0>>, 12)
Private192 == Cidr(<<192, 168, 0, 0>>, 16)
Multicast == Cidr(<<224, 0, 0, 0>>, 4)
Reserved240 == Cidr(<<240, 0, 0, 0>>, 4)
Broadcast == Cidr(<<255, 255, 255, 255>>, 32)
ZeroConf == Cidr(<<0, 0, 0, 0>>, 8)

MandatoryBlockedRanges ==
  <<LocalhostIPv4, LocalhostIPv6, CloudMetadata, LinkLocal, Multicast,
    Reserved240, Broadcast, ZeroConf>>

PrivateRanges == <<Private10, Private172, Private192>>

\* the two texts ValidateWhitelistEntry lets through unchecked
AllIPv4 == Cidr(<<0, 0, 0, 0>>, 0)
AllIPv6 == Cidr(Zeros(16), 0)

Range(f) == {f[i] : i \in DOMAIN f}

(***************************************************************************)
(* Runner side: EnforceSecurityRules, ValidateNetworkConfig,               *)
(* buildNetworkPolicy.                                                     *)
(***************************************************************************)
MaxWhitelist == 2
MaxPort == 65535

Public8 == Cidr(<<8, 8, 8, 8>>, 32)

\* CIDR texts a whitelist entry may carry: public ranges, private ranges,
\* a part of a private range (network_security_test.go:209-214), an address
\* of the default bridge subnet, a metadata address outside 169.254.0.0/16,
\* ranges inside, around and equal to forbidden ones, both all-address texts,
\* a text that spells the all-address range differently, an IPv4-mapped
\* text, the empty string and a malformed text
WhitelistCIDRs ==
  { AllIPv4, AllIPv6, Public8, Private10,
    Cidr(<<10, 0, 1, 0>>, 24),
    Cidr(<<172, 17, 0, 5>>, 32),
    Cidr(<<168, 63, 129, 16>>, 32),
    Cidr(<<1, 2, 3, 4>>, 0),
    Cidr(<<127, 0, 0, 1>>, 32),
    Cidr(<<160, 0, 0, 0>>, 3),
    Cidr(<<128, 0, 0, 0>>, 1),
    Cidr(<<224, 0, 0, 1>>, 32),
    Cidr(<<32, 1, 13, 184>> \o Zeros(12), 32),
    Cidr(Zeros(16), 127),
    Cidr(Zeros(10) \o <<255, 255, 127, 0, 0, 1>>, 128),
    Cidr(<<>>, 0),
    Cidr(<<1, 2, 3>>, 8) }

WhitelistEntry(cidr, ports) == [CIDR |-> cidr, Ports |-> ports]

WhitelistEntries ==
  {WhitelistEntry(x, <<>>) : x \in WhitelistCIDRs}
    \cup {WhitelistEntry(Public8, <<443>>), WhitelistEntry(Public8, <<0>>)}

SeqsUpTo(S, n) == UNION {[1..k -> S] : k \in 0..n}

\* DNS server texts a configuration may carry, as the address they spell: a
\* public one, an IPv4 link-local one, an IPv6 link-local one (fe80::1), a
\* metadata address outside 169.254.0.0/16, and a text that is no address
DnsServers ==
  {<<8, 8, 8, 8>>, <<169, 254, 1, 1>>, <<254, 128>> \o Zeros(13) \o <<1>>,
   <<168, 63, 129, 16>>, <<>>}

\* the NetworkConfig values a workload may be configured with
NetworkConfigs ==
  [DefaultPolicy : {"allow", "deny", "Deny"},
   BlockMetadata : BOOLEAN,
   AllowDNS : BOOLEAN,
   DNSServers : SeqsUpTo(DnsServers, 1),
   Whitelist : SeqsUpTo(WhitelistEntries, MaxWhitelist),
   Blacklist : {<<>>, <<LocalhostIPv4>>, <<Public8>>}]

\* strings.ToLower on the policy texts of the model
ToLower(str) == IF str = "Deny" THEN "deny" ELSE str

\* the port checks of ValidateWhitelistEntry (network_security.go:110-137);
\* a port is given by its number
PortsValid(ports) == \A i \in DOMAIN ports : ports[i] # 0 /\ ports[i] <= MaxPort

\* network_security.go:78-140: TRUE iff the entry is accepted
ValidateWhitelistEntry(entry) ==
  IF entry.CIDR = Cidr(<<>>, 0) THEN FALSE
  ELSE IF ~ParseCIDR(entry.CIDR).ok THEN FALSE
  ELSE IF entry.CIDR = AllIPv4 \/ entry.CIDR = AllIPv6 THEN TRUE
  ELSE /\ \A i \in DOMAIN MandatoryBlockedRanges :
            ~networksOverlap(ParseCIDR(entry.CIDR).net,
                             ParseCIDR(MandatoryBlockedRanges[i]).net)
       /\ PortsValid(entry.Ports)

\* network_security.go:149-175
createMandatoryBlacklist == MandatoryBlockedRanges

\* network_security.go:178-213: the private ranges no whitelist entry overlaps
filterPrivateRanges(whitelist) ==
  LET whitelisted(r) ==
        \E i \in DOMAIN whitelist :
           /\ ParseCIDR(whitelist[i].CIDR).ok
           /\ networksOverlap(ParseCIDR(r).net, ParseCIDR(whitelist[i].CIDR).net)
      blocked(r) == ~whitelisted(r)
  IN  SelectSeq(PrivateRanges, blocked)

\* the loop of deduplicateBlacklist: seen is the set of texts met so far
RECURSIVE dedupe(_, _)
dedupe(blacklist, seen) ==
  IF blacklist = <<>> THEN <<>>
  ELSE IF Head(blacklist) \in seen THEN dedupe(Tail(blacklist), seen)
  ELSE <<Head(blacklist)>> \o dedupe(Tail(blacklist), seen \cup {Head(blacklist)})

\* network_security.go:216-231: the first occurrence of every text is kept
deduplicateBlacklist(blacklist) == dedupe(blacklist, {})

\* network_security.go:52-75: [ok, cfg]
EnforceSecurityRules(cfg) ==
  IF \E i \in DOMAIN cfg.Whitelist : ~ValidateWhitelistEntry(cfg.Whitelist[i])
  THEN [ok |-> FALSE, cfg |-> [cfg EXCEPT !.BlockMetadata = TRUE]]
  ELSE [ok |-> TRUE,
        cfg |-> [cfg EXCEPT
                   !.BlockMetadata = TRUE,
                   !.Blacklist = deduplicateBlacklist(
                                   cfg.Blacklist \o createMandatoryBlacklist
                                     \o filterPrivateRanges(cfg.Whitelist))]]

\* network_security.go:250-283 (the configurations of the model name no DNS
\* servers): [ok, cfg]
\* network_security.go:268-281: a DNS server must parse and lie in no
\* mandatory-block range
DNSServerAllowed(dns) ==
  /\ dns # <<>>
  /\ \A i \in DOMAIN MandatoryBlockedRanges :
       ~Contains(ParseCIDR(MandatoryBlockedRanges[i]).net, dns)

ValidateNetworkConfigResult(cfg) ==
  IF ~EnforceSecurityRules(cfg).ok THEN EnforceSecurityRules(cfg)
  ELSE [ok |-> /\ ToLower(cfg.DefaultPolicy) \in {"allow", "deny"}
               /\ \A i \in DOMAIN cfg.DNSServers : DNSServerAllowed(cfg.DNSServers[i]),
        cfg |-> EnforceSecurityRules(cfg).cfg]

NetworkRule(cidr, ports) == [Cidr |-> cidr, Ports |-> ports]

\* IP.IsLoopback
IsLoopback(ip) ==
  IF To4(ip) # <<>> THEN To4(ip)[1] = 127 ELSE ip = Zeros(15) \o <<1>>

\* the three texts compared with (validation_test.go:394)
MetadataIPs == {<<169, 254, 169, 254>>, <<168, 63, 129, 16>>, <<100, 100, 100, 200>>}

\* validation.ValidateDNSServer (validation_test.go:369-403)
ValidateDNSServer(dns) ==
  /\ dns # <<>>
  /\ ~IsLoopback(dns)
  /\ To4(dns) # <<>> =>
       /\ ~(To4(dns)[1] = 169 /\ To4(dns)[2] = 254)
       /\ dns \notin MetadataIPs

\* lifecycle_test.go:198-232
buildNetworkPolicy(cfg) ==
  [Policy |-> cfg.DefaultPolicy,
   BlockMetadata |-> cfg.BlockMetadata,
   AllowDns |-> cfg.AllowDNS,
   DnsServers |-> cfg.DNSServers,
   Whitelist |-> [i \in DOMAIN cfg.Whitelist |->
                    NetworkRule(cfg.Whitelist[i].CIDR, cfg.Whitelist[i].Ports)],
   Blacklist |-> [i \in DOMAIN cfg.Blacklist |-> NetworkRule(cfg.Blacklist[i], <<>>)]]

(***************************************************************************)
(* Bastion side: iptables.ApplyRules  (iptables/ipv6_test.go:305-485).     *)
(* A rule is one iptables (fam 4) or ip6tables (fam 6) -A command; origin  *)
(* names the part of ApplyRules that emitted it.  The commands succeed.    *)
(***************************************************************************)
NoPorts == [lo |-> 0, hi |-> 0]
OnePort(n) == [lo |-> n, hi |-> n]
DnsPort == 53
DhcpPortLo == 67
DhcpPortHi == 68

Rule(fam, hasDst, dst, proto, dport, verdict, origin) ==
  [fam |-> fam, hasDst |-> hasDst, dst |-> dst, proto |-> proto,
   dport |-> dport, verdict |-> verdict, origin |-> origin]

ToDst(fam, dst, verdict, origin) == Rule(fam, TRUE, dst, "all", NoPorts, verdict, origin)

\* dockerBridgeSubnets (ipv6_test.go:569-598): the default bridge subnet
dockerBridgeSubnets == <<Cidr(<<172, 17, 0, 0>>, 16)>>

\* validation.ValidatePort
ValidatePort(port) == port # 0 /\ port <= MaxPort

\* applyNetworkRule (ipv6_test.go:447-485): [ok, rules]; the ports are checked
\* one by one, each right before its two rules are appended
applyNetworkRule(rule, action, origin) ==
  IF ~ParseCIDR(rule.Cidr).ok THEN [ok |-> FALSE, rules |-> <<>>]
  ELSE IF rule.Ports = <<>>
       THEN [ok |-> TRUE,
             rules |-> <<ToDst(detectIPVersion(rule.Cidr), rule.Cidr, action, origin)>>]
       ELSE LET bad == {i \in DOMAIN rule.Ports : ~ValidatePort(rule.Ports[i])}
                done == IF bad = {} THEN Len(rule.Ports)
                        ELSE (CHOOSE i \in bad : \A j \in bad : i <= j) - 1
            IN  [ok |-> bad = {},
                 rules |-> [k \in 1..(2 * done) |->
                    Rule(detectIPVersion(rule.Cidr), TRUE, rule.Cidr,
                         IF k % 2 = 1 THEN "tcp" ELSE "udp",
                         OnePort(rule.Ports[(k + 1) \div 2]), action, origin)]]

\* the loops over policy.Whitelist and policy.Blacklist: they stop at the
\* first rule that fails
RECURSIVE applyNetworkRules(_, _, _)
applyNetworkRules(rs, action, origin) ==
  IF rs = <<>> THEN [ok |-> TRUE, rules |-> <<>>]
  ELSE LET first == applyNetworkRule(Head(rs), action, origin)
           rest == applyNetworkRules(Tail(rs), action, origin)
       IN  IF ~first.ok THEN first
           ELSE [ok |-> rest.ok, rules |-> first.rules \o rest.rules]

\* ipv6_test.go:319-328
BridgeRules ==
  [i \in DOMAIN dockerBridgeSubnets |->
     ToDst(detectIPVersion(dockerBridgeSubnets[i]), dockerBridgeSubnets[i],
           "DROP", "bridge")]

\* ipv6_test.go:331-366
SecurityRules(policy) ==
  IF ~policy.BlockMetadata THEN <<>>
  ELSE (IF policy.AllowDns
        THEN << Rule(4, TRUE, Cidr(<<127, 0, 0, 11>>, 32), "udp", OnePort(DnsPort),
                     "ACCEPT", "security"),
                Rule(4, TRUE, Cidr(<<127, 0, 0, 11>>, 32), "tcp", OnePort(DnsPort),
                     "ACCEPT", "security") >>
        ELSE <<>>)
       \o << ToDst(4, Cidr(<<169, 254, 169, 254>>, 32), "DROP", "security"),
             ToDst(4, Cidr(<<168, 63, 129, 16>>, 32), "DROP", "security"),
             ToDst(4, Cidr(<<100, 100, 100, 200>>, 32), "DROP", "security"),
             ToDst(4, Cidr(<<169, 254, 0, 0>>, 16), "DROP", "security"),
             ToDst(4, Cidr(<<127, 0, 0, 0>>, 8), "DROP", "security"),
             Rule(4, FALSE, AllIPv4, "udp", [lo |-> DhcpPortLo, hi |-> DhcpPortHi],
                  "DROP", "security"),
             ToDst(6, Cidr(Zeros(15) \o <<1>>, 128), "DROP", "security"),
             ToDst(6, Cidr(<<254, 128>> \o Zeros(14), 10), "DROP", "security"),
             ToDst(6, Cidr(<<255, 0>> \o Zeros(14), 8), "DROP", "security") >>

\* ipv6_test.go:369-381: DNS to any address
DnsRules(policy) ==
  IF ~policy.AllowDns THEN <<>>
  ELSE << Rule(4, FALSE, AllIPv4, "udp", OnePort(DnsPort), "ACCEPT", "dns"),
          Rule(6, FALSE, AllIPv6, "udp", OnePort(DnsPort), "ACCEPT", "dns"),
          Rule(4, FALSE, AllIPv4, "tcp", OnePort(DnsPort), "ACCEPT", "dns"),
          Rule(6, FALSE, AllIPv6, "tcp", OnePort(DnsPort), "ACCEPT", "dns") >>

\* ipv6_test.go:383-401: [ok, rules]; the configured DNS servers are checked
\* one by one, each right before its two rules are appended
DnsServerRules(policy) ==
  IF ~policy.AllowDns THEN [ok |-> TRUE, rules |-> <<>>]
  ELSE LET bad == {i \in DOMAIN policy.DnsServers :
                     ~ValidateDNSServer(policy.DnsServers[i])}
           done == IF bad = {} THEN Len(policy.DnsServers)
                   ELSE (CHOOSE i \in bad : \A j \in bad : i <= j) - 1
           dst(k) == LET dns == policy.DnsServers[(k + 1) \div 2]
                     IN  Cidr(dns, 8 * Len(dns))
       IN  [ok |-> bad = {},
            rules |-> [k \in 1..(2 * done) |->
               Rule(detectIPVersion(dst(k)), TRUE, dst(k),
                    IF k % 2 = 1 THEN "udp" ELSE "tcp",
                    OnePort(DnsPort), "ACCEPT", "dnsServer")]]

\* ipv6_test.go:424-440
DefaultRules(policy) ==
  LET action == IF policy.Policy = "deny" THEN "DROP" ELSE "ACCEPT"
  IN  << Rule(4, FALSE, AllIPv4, "all", NoPorts, action, "default"),
         Rule(6, FALSE, AllIPv6, "all", NoPorts, action, "default") >>

\* a bug: the default verdict is appended before the user's rules
ApplyRulesResult_DefaultFirst(policy) ==
  [ok |-> policy.Policy \in {"allow", "deny"},
   rules |-> BridgeRules \o SecurityRules(policy) \o DnsRules(policy)
               \o DefaultRules(policy)
               \o applyNetworkRules(policy.Whitelist, "ACCEPT", "whitelist").rules]

\* iptables.ApplyRules: [ok, rules], the rules appended to the chain in order
ApplyRulesResult(policy) ==
  IF policy.Policy \notin {"allow", "deny"} THEN [ok |-> FALSE, rules |-> <<>>]
  ELSE LET dns == DnsServerRules(policy)
           fixed == BridgeRules \o SecurityRules(policy) \o DnsRules(policy)
                      \o dns.rules
           wl == IF policy.Policy = "deny"
                 THEN applyNetworkRules(policy.Whitelist, "ACCEPT", "whitelist")
                 ELSE [ok |-> TRUE, rules |-> <<>>]
           bl == IF policy.Policy = "allow"
                 THEN applyNetworkRules(policy.Blacklist, "DROP", "blacklist")
                 ELSE [ok |-> TRUE, rules |-> <<>>]
       IN  IF ~dns.ok THEN [ok |-> FALSE, rules |-> fixed]
           ELSE IF ~wl.ok THEN [ok |-> FALSE, rules |-> fixed \o wl.rules]
           ELSE IF ~bl.ok THEN [ok |-> FALSE, rules |-> fixed \o wl.rules \o bl.rules]
           ELSE [ok |-> TRUE,
                 rules |-> fixed \o wl.rules \o bl.rules \o DefaultRules(policy)]

(***************************************************************************)
(* A configuration on its way: SetupNetworkIsolation validates it, builds  *)
(* the policy and has the Bastion apply it (lifecycle_test.go:124-164).    *)
(***************************************************************************)
ValidateNetworkConfig ==
  /\ pol.pc = "config"
  /\ pol' = [pol EXCEPT
               !.pc = IF ValidateNetworkConfigResult(pol.cfg).ok
                      THEN "validated" ELSE "rejected",
               !.cfg = ValidateNetworkConfigResult(pol.cfg).cfg]
  /\ UNCHANGED notPolicy

BuildNetworkPolicy ==
  /\ pol.pc = "validated"
  /\ pol' = [pol EXCEPT !.pc = "built", !.policy = buildNetworkPolicy(pol.cfg)]
  /\ UNCHANGED notPolicy

ApplyRules ==
  /\ pol.pc = "built"
  /\ pol' = [pol EXCEPT
               !.pc = IF ApplyRulesResult(pol.policy).ok
                      THEN "applied" ELSE "applyFailed",
               !.rules = ApplyRulesResult(pol.policy).rules]
  /\ UNCHANGED notPolicy

NextPolicy ==
  \/ ValidateNetworkConfig
  \/ BuildNetworkPolicy
  \/ ApplyRules

InitPolicy ==
  /\ RunInit /\ RunnerInit /\ PoolInit /\ ServerInit /\ ManagerIdle
  /\ pol \in {[pc |-> "config", cfg |-> cfg, policy |-> NoPolicy, rules |-> <<>>] :
                cfg \in NetworkConfigs}

SpecPolicy == InitPolicy /\ [][NextPolicy]_vars

(***************************************************************************)
(* Bastion network pool: Acquire, Release, runCleanup  (unnamed/part_010). *)
(* p.state.mu is held within one step and dropped between steps, as in the *)
(* code.                                                                   *)
(***************************************************************************)
\* removeString without effect (a bug)
removeString_Keep(slice, str) == slice

\* part_010:645-653
removeString(slice, str) ==
  LET other(x) == x # str IN SelectSeq(slice, other)

\* the ownership test of Release always passing (a bug)
ownsNetwork_Anyone(entry, container) == TRUE

\* part_010:236: entry.CurrentContainer != nil && *entry.CurrentContainer == containerID
ownsNetwork(entry, container) == entry.CurrentContainer = container

\* the range loop of findAvailableNetwork
RECURSIVE firstAvailable(_)
firstAvailable(networks) ==
  IF networks = <<>> THEN 0
  ELSE IF nets[Head(networks)].present /\ nets[Head(networks)].CurrentContainer = None
       THEN Head(networks)
       ELSE firstAvailable(Tail(networks))

\* part_010:487-496; 0 stands for ""
findAvailableNetwork(configHash) == firstAvailable(configIndex[configHash])

\* the networks of hash h that are pooled: indexed, present and without holder
Pooled(h) ==
  {n \in Names : /\ \E i \in DOMAIN configIndex[h] : configIndex[h][i] = n
                 /\ nets[n].present /\ nets[n].CurrentContainer = None}

\* Acquire (part_010:193-225) up to the release of the lock: an available
\* network is taken over, or the call goes on to createNetwork
AcquireLocked(w, h) ==
  /\ call[w].pc = "idle"
  /\ LET n == findAvailableNetwork(h) IN
       IF n # 0
       THEN /\ nets[n].ReuseCount < MaxReuse
            /\ nets' = [nets EXCEPT ![n].CurrentContainer = w,
                                    ![n].CleanupAt = FALSE,
                                    ![n].expired = FALSE,
                                    ![n].ReuseCount = @ + 1]
            /\ configIndex' = [configIndex EXCEPT ![h] = removeString(@, n)]
            /\ grant' = [grant EXCEPT ![n] = @ \cup {w}]
            /\ call' = [call EXCEPT ![w] =
                          [op |-> "acquire", pc |-> "persist", hash |-> h, net |-> n,
                           reused |-> TRUE, subnet |-> nets[n].Subnet,
                           cleanedUp |-> FALSE, err |-> "", pooled |-> Pooled(h),
                           old |-> nets[n].ReuseCount, repeat |-> FALSE]]
       ELSE /\ call' = [call EXCEPT ![w] =
                          [IdleCall EXCEPT !.op = "acquire", !.pc = "create",
                                           !.hash = h]]
            /\ UNCHANGED <<nets, configIndex, grant>>
  /\ UNCHANGED <<cl, alloc, store, notPool>>

\* generateSubnet (part_010:550-555): the text "b0.(b1 + index/256).(index%256).0/24"
\* as its numbers
generateSubnet(baseIP, index) ==
  <<baseIP[1], baseIP[2] + (index \div 256), index % 256, 0, 24>>

\* usedSubnets of allocateSubnet (part_010:504-519): the subnets of the pool's
\* entries and of the networks Docker lists
usedSubnets ==
  {nets[n].Subnet : n \in {m \in Names : nets[m].present \/ nets[m].docker}}

\* the index the loop of allocateSubnet stops at, from i on; MaxSubnets if none
RECURSIVE firstFreeIndex(_)
firstFreeIndex(i) ==
  IF i >= MaxSubnets THEN MaxSubnets
  ELSE IF generateSubnet(BaseIP, i) \notin usedSubnets THEN i
  ELSE firstFreeIndex(i + 1)

\* allocateSubnet (part_010:498-548): the first subnet of the range that is not
\* in use, <<>> for the error "no available subnets"
allocateSubnet ==
  IF firstFreeIndex(0) < MaxSubnets
  THEN generateSubnet(BaseIP, firstFreeIndex(0))
  ELSE <<>>

\* createNetwork (part_010:392-474): Docker creates the network under a new
\* name and the entry is added, or creation fails
createNetwork(w) ==
  /\ call[w].pc = "create"
  /\ \/ /\ \E n \in Names : ~nets[n].used
        /\ allocateSubnet # <<>>
        /\ LET n == CHOOSE m \in Names :
                      ~nets[m].used /\ \A k \in Names : ~nets[k].used => m <= k
           IN  /\ nets' = [nets EXCEPT ![n] =
                             [NoEntry EXCEPT !.present = TRUE, !.used = TRUE,
                                             !.docker = TRUE,
                                             !.ConfigHash = call[w].hash,
                                             !.Subnet = allocateSubnet,
                                             !.CurrentContainer = w]]
               /\ grant' = [grant EXCEPT ![n] = @ \cup {w}]
               /\ call' = [call EXCEPT ![w].pc = "persist", ![w].net = n,
                                       ![w].subnet = allocateSubnet]
     \/ /\ call' = [call EXCEPT ![w].pc = "idle", ![w].err = "create"]
        /\ UNCHANGED <<nets, grant>>
  /\ UNCHANGED <<configIndex, cl, alloc, store, notPool>>

\* p.persist() at the end of Acquire and Release: the call returns its result,
\* or the error of persist
persist(w) ==
  /\ call[w].pc = "persist"
  /\ \E ok \in BOOLEAN :
       /\ call' = [call EXCEPT ![w] =
                     IF call[w].op = "acquire"
                     THEN [@ EXCEPT !.pc = "idle", !.err = IF ok THEN "" ELSE "persist"]
                     ELSE IF ok /\ call[w].cleanedUp
                     THEN [@ EXCEPT !.pc = "idle"]
                     ELSE [IdleCall EXCEPT !.op = "release",
                                           !.err = IF ok THEN "" ELSE "persist"]]
       /\ alloc' = IF ok /\ call[w].op = "acquire"
                   THEN alloc \cup {[hash |-> call[w].hash, subnet |-> call[w].subnet]}
                   ELSE alloc
  /\ UNCHANGED <<nets, configIndex, cl, grant, store, notPool>>

\* Release (part_010:227-286) up to the release of the lock
ReleaseLocked(w, n, forceCleanup) ==
  /\ call[w].pc = "idle"
  /\ IF ~nets[n].present
     THEN /\ call' = [call EXCEPT ![w] =
                        [IdleCall EXCEPT !.op = "release", !.err = "notfound",
                                         !.repeat = /\ call[w].op = "release"
                                                    /\ call[w].cleanedUp
                                                    /\ call[w].err = ""
                                                    /\ call[w].net = n
                                                    /\ forceCleanup]]
          /\ UNCHANGED <<nets, configIndex, grant, alloc>>
     ELSE IF ~ownsNetwork(nets[n], w)
     THEN /\ call' = [call EXCEPT ![w] =
                        [IdleCall EXCEPT !.op = "release", !.err = "notowner"]]
          /\ UNCHANGED <<nets, configIndex, grant, alloc>>
     ELSE /\ grant' = [grant EXCEPT ![n] = @ \ {w}]
          /\ alloc' = {}
          /\ IF forceCleanup
             THEN /\ nets' = [nets EXCEPT ![n].CurrentContainer = None]
                  /\ call' = [call EXCEPT ![w] =
                                [IdleCall EXCEPT !.op = "release", !.net = n,
                                                 !.pc = "cleanupNetwork"]]
                  /\ UNCHANGED configIndex
             ELSE /\ nets' = [nets EXCEPT ![n].CurrentContainer = None,
                                          ![n].CleanupAt = TRUE,
                                          ![n].expired = FALSE]
                  /\ configIndex' = [configIndex EXCEPT
                                       ![nets[n].ConfigHash] = Append(@, n)]
                  /\ call' = [call EXCEPT ![w] =
                                [IdleCall EXCEPT !.op = "release", !.net = n,
                                                 !.pc = "persist"]]
  /\ UNCHANGED <<cl, store, notPool>>

\* the entry of n staying where it is (a bug)
deleteEntry_Skipped(n) == UNCHANGED <<nets, configIndex>>

\* the entry of n is deleted from Networks and ConfigIndex
deleteEntry(n) ==
  /\ nets' = [nets EXCEPT ![n] = [NoEntry EXCEPT !.used = TRUE]]
  /\ configIndex' = [configIndex EXCEPT ![nets[n].ConfigHash] = removeString(@, n)]

\* Release with forceCleanup (part_010:244-263): cleanupNetwork, then the
\* entry is deleted; on an error of cleanupNetwork the call returns it
ReleaseCleanup(w) ==
  /\ call[w].pc = "cleanupNetwork"
  /\ \/ /\ deleteEntry(call[w].net)
        /\ call' = [call EXCEPT ![w].pc = "persist", ![w].cleanedUp = TRUE]
     \/ /\ call' = [call EXCEPT ![w] =
                        [IdleCall EXCEPT !.op = "release", !.err = "cleanup"]]
        /\ UNCHANGED <<nets, configIndex>>
  /\ UNCHANGED <<cl, grant, alloc, store, notPool>>

\* an hour passes for a pooled network: its CleanupAt is now in the past
TTLExpires(n) ==
  /\ nets[n].present /\ nets[n].CleanupAt /\ ~nets[n].expired
  /\ nets' = [nets EXCEPT ![n].expired = TRUE]
  /\ UNCHANGED <<configIndex, call, cl, grant, alloc, store, notPool>>

\* runCleanup (part_010:347-367): the expired networks without holder are noted
CleanupCollect ==
  /\ cl.pc = "idle"
  /\ LET due == {n \in Names : /\ nets[n].present /\ nets[n].CleanupAt
                               /\ nets[n].expired
                               /\ nets[n].CurrentContainer = None}
     IN  cl' = [pc |-> "items", toCleanup |-> due]
  /\ UNCHANGED <<nets, configIndex, call, grant, alloc, store, notPool>>

\* runCleanup (part_010:369-382): one noted network is removed and its entry
\* deleted, or cleanupNetwork fails and the entry stays
CleanupItem(n) ==
  /\ cl.pc = "items" /\ n \in cl.toCleanup
  /\ cl' = [cl EXCEPT !.toCleanup = @ \ {n}]
  /\ \/ deleteEntry(n)
     \/ UNCHANGED <<nets, configIndex>>
  /\ UNCHANGED <<call, grant, alloc, store, notPool>>

\* runCleanup (part_010:384-389): LastCleanup and persist
CleanupDone ==
  /\ cl.pc = "items" /\ cl.toCleanup = {}
  /\ cl' = [cl EXCEPT !.pc = "idle"]
  /\ UNCHANGED <<nets, configIndex, call, grant, alloc, store, notPool>>

NextPool ==
  \/ \E w \in Workloads, h \in Hashes : AcquireLocked(w, h)
  \/ \E w \in Workloads : createNetwork(w)
  \/ \E w \in Workloads : persist(w)
  \/ \E w \in Workloads, n \in Names, f \in BOOLEAN : ReleaseLocked(w, n, f)
  \/ \E w \in Workloads : ReleaseCleanup(w)
  \/ \E n \in Names : TTLExpires(n)
  \/ CleanupCollect
  \/ \E n \in Names : CleanupItem(n)
  \/ CleanupDone

InitPool == RunInit /\ RunnerInit /\ PolicyIdle /\ PoolInit /\ ServerInit /\ ManagerIdle

SpecPool == InitPool /\ [][NextPool]_vars

(***************************************************************************)
(* Bastion network pool: the state file.  persist in its steps (marshal    *)
(* under the read lock, write the temp file, rename), and the restart of   *)
(* the Bastion with loadState and validateNetworks  (unnamed/part_010).    *)
(***************************************************************************)
\* the fields of a NetworkEntry that json.Marshal writes; a time is written
\* as such, so whether CleanupAt has passed is a matter of the reader's clock
\* (passed: it had passed when the entry was written)
entryJSON(e) ==
  [config_hash |-> e.ConfigHash, subnet |-> e.Subnet,
   current_container |-> e.CurrentContainer,
   cleanup_at |-> e.CleanupAt, passed |-> e.expired,
   reuse_count |-> e.ReuseCount]

\* json.MarshalIndent(p.state): the entries by name, and the index (a missing
\* key and an empty list are the same to every reader of ConfigIndex)
marshal ==
  [exists |-> TRUE,
   networks |-> [n \in {m \in Names : nets[m].present} |-> entryJSON(nets[n])],
   config_index |-> configIndex]

\* loadState (part_010:579-605): the file's content, or an empty state when
\* there is no file
loadState(file) ==
  [networks |-> file.networks, config_index |-> file.config_index]

\* the orders in which a range over p.state.Networks may visit the names
Orders ==
  {o \in [1..MaxNetworks -> Names] : \A i, j \in 1..MaxNetworks : o[i] = o[j] => i = j}

\* validateNetworks keeping the stored index (a bug)
rebuildIndex_Stored(state, kept, order) == state.config_index

\* validateNetworks (part_010:626-632): ConfigIndex is built anew from the
\* kept entries without holder, in the order the map is ranged over
rebuildIndex(state, kept, order) ==
  [h \in Hashes |->
     LET pooledUnder(n) == /\ n \in kept
                           /\ state.networks[n].current_container = None
                           /\ state.networks[n].config_hash = h
     IN  SelectSeq(order, pooledUnder)]

\* validateNetworks (part_010:618-624): the names whose network Docker lists
keptNetworks(state) == {n \in DOMAIN state.networks : nets[n].docker}

\* the entry read back from the file; late: its CleanupAt has passed by now
entryLoaded(j, late) ==
  [present |-> TRUE, used |-> TRUE, docker |-> TRUE,
   ConfigHash |-> j.config_hash, Subnet |-> j.subnet,
   CurrentContainer |-> j.current_container,
   CleanupAt |-> j.cleanup_at, expired |-> j.cleanup_at /\ (j.passed \/ late),
   ReuseCount |-> j.reuse_count]

\* what a call returns after persist: the network and the result, or the
\* error of persist
persistReturn(w, ok) ==
  /\ call' = [call EXCEPT ![w] =
                [IdleCall EXCEPT !.op = call[w].op, !.net = call[w].net,
                                 !.cleanedUp = ok /\ call[w].cleanedUp,
                                 !.err = IF ok THEN "" ELSE "persist"]]
  /\ UNCHANGED alloc

\* persist (part_010:558-560) in an Acquire or Release: the state is marshalled
\* under the read lock
persistMarshal(w) ==
  /\ call[w].pc = "persist"
  /\ call' = [call EXCEPT ![w].pc = "writeTmp"]
  /\ store' = [store EXCEPT !.data[w] = marshal]
  /\ UNCHANGED <<nets, configIndex, cl, grant, alloc, notPool>>

\* persist (part_010:566-569): os.WriteFile of the temp file, or its error
persistWriteTmp(w) ==
  /\ call[w].pc = "writeTmp"
  /\ \/ /\ store' = [store EXCEPT !.tmp = store.data[w]]
        /\ call' = [call EXCEPT ![w].pc = "rename"]
        /\ UNCHANGED alloc
     \/ /\ store' = [store EXCEPT !.data[w] = NoFile]
        /\ persistReturn(w, FALSE)
  /\ UNCHANGED <<nets, configIndex, cl, grant, notPool>>

\* persist (part_010:571-576): os.Rename puts the temp file in place of the
\* state file; it fails when the temp file is gone, and then the temp file is
\* removed
persistRename(w) ==
  /\ call[w].pc = "rename"
  /\ IF store.tmp.exists
     THEN /\ store' = [store EXCEPT !.disk = store.tmp, !.tmp = NoFile, !.data[w] = NoFile]
          /\ persistReturn(w, TRUE)
     ELSE /\ store' = [store EXCEPT !.data[w] = NoFile]
          /\ persistReturn(w, FALSE)
  /\ UNCHANGED <<nets, configIndex, cl, grant, notPool>>

\* runCleanup (part_010:384-389) and persist: the state is marshalled
cleanupMarshal ==
  /\ cl.pc = "items" /\ cl.toCleanup = {}
  /\ cl' = [cl EXCEPT !.pc = "writeTmp"]
  /\ store' = [store EXCEPT !.data["cleanup"] = marshal]
  /\ UNCHANGED <<nets, configIndex, call, grant, alloc, notPool>>

\* persist in runCleanup: the temp file is written, or the cycle ends with
\* the error
cleanupWriteTmp ==
  /\ cl.pc = "writeTmp"
  /\ \/ /\ store' = [store EXCEPT !.tmp = store.data["cleanup"]]
        /\ cl' = [cl EXCEPT !.pc = "rename"]
     \/ /\ store' = [store EXCEPT !.data["cleanup"] = NoFile]
        /\ cl' = [cl EXCEPT !.pc = "idle"]
  /\ UNCHANGED <<nets, configIndex, call, grant, alloc, notPool>>

\* persist in runCleanup: the rename, and the cycle ends
cleanupRename ==
  /\ cl.pc = "rename"
  /\ store' = IF store.tmp.exists
              THEN [store EXCEPT !.disk = store.tmp, !.tmp = NoFile,
                                 !.data["cleanup"] = NoFile]
              ELSE [store EXCEPT !.data["cleanup"] = NoFile]
  /\ cl' = [cl EXCEPT !.pc = "idle"]
  /\ UNCHANGED <<nets, configIndex, call, grant, alloc, notPool>>

\* a Docker network of the pool is removed behind the pool's back
NetworkRemoved(n) ==
  /\ nets[n].present /\ nets[n].docker
  /\ nets' = [nets EXCEPT ![n].docker = FALSE]
  /\ UNCHANGED <<configIndex, call, cl, grant, alloc, store, notPool>>

\* The Bastion restarts: NewWithConfig (part_010:120-170) reads the state
\* file and validateNetworks (part_010:607-635) drops the entries whose
\* network Docker no longer lists and builds ConfigIndex anew.  The calls and
\* the cleanup cycle of the old process are gone.
Restart(order, late) ==
  /\ LET state == loadState(store.disk)
         kept == keptNetworks(state)
     IN  /\ nets' = [n \in Names |->
                       IF n \in kept THEN entryLoaded(state.networks[n], late)
                       ELSE [NoEntry EXCEPT !.used = nets[n].used,
                                            !.docker = nets[n].docker,
                                            !.Subnet = IF nets[n].docker
                                                       THEN nets[n].Subnet ELSE <<>>]]
         /\ configIndex' = rebuildIndex(state, kept, order)
  /\ call' = [w \in Workloads |-> IdleCall]
  /\ cl' = [pc |-> "idle", toCleanup |-> {}]
  /\ store' = [store EXCEPT !.data = [p \in Persisters |-> NoFile],
                            !.dropped = DOMAIN store.disk.networks
                                          \ keptNetworks(loadState(store.disk))]
  /\ UNCHANGED <<grant, alloc, notPool>>

\* persist (part_010:557-577) when no other persist runs beside it: the state
\* is marshalled, written and renamed into place, or an error is returned
persistAlone(w) ==
  /\ call[w].pc = "persist"
  /\ \E ok \in BOOLEAN :
       /\ store' = IF ok THEN [store EXCEPT !.disk = marshal] ELSE store
       /\ persistReturn(w, ok)
  /\ UNCHANGED <<nets, configIndex, cl, grant, notPool>>

\* runCleanup (part_010:384-389) with its persist when no other persist runs
\* beside it
cleanupPersistAlone ==
  /\ cl.pc = "items" /\ cl.toCleanup = {}
  /\ \E ok \in BOOLEAN :
       store' = IF ok THEN [store EXCEPT !.disk = marshal] ELSE store
  /\ cl' = [cl EXCEPT !.pc = "idle"]
  /\ UNCHANGED <<nets, configIndex, call, grant, alloc, notPool>>

\* the state file is followed with one workload, one network configuration
\* and the cleanup cycle
StoreWorkloads == {"w1"}
StoreHashes == {"h1"}

\* the pool with persist in its steps: a call and the cleanup cycle persist
\* side by side
NextStore ==
  \/ \E w \in StoreWorkloads, h \in StoreHashes : AcquireLocked(w, h)
  \/ \E w \in StoreWorkloads : createNetwork(w)
  \/ \E w \in StoreWorkloads, n \in Names, f \in BOOLEAN : ReleaseLocked(w, n, f)
  \/ \E w \in StoreWorkloads : ReleaseCleanup(w)
  \/ \E n \in Names : TTLExpires(n)
  \/ CleanupCollect
  \/ \E n \in Names : CleanupItem(n)
  \/ \E w \in StoreWorkloads : persistMarshal(w)
  \/ \E w \in StoreWorkloads : persistWriteTmp(w)
  \/ \E w \in StoreWorkloads : persistRename(w)
  \/ cleanupMarshal
  \/ cleanupWriteTmp
  \/ cleanupRename

SpecStore == InitPool /\ [][NextStore]_vars

\* the pool with its state file over restarts of the Bastion
NextReload ==
  \/ \E w \in StoreWorkloads, h \in StoreHashes : AcquireLocked(w, h)
  \/ \E w \in StoreWorkloads : createNetwork(w)
  \/ \E w \in StoreWorkloads, n \in Names, f \in BOOLEAN : ReleaseLocked(w, n, f)
  \/ \E w \in StoreWorkloads : ReleaseCleanup(w)
  \/ \E n \in Names : TTLExpires(n)
  \/ CleanupCollect
  \/ \E n \in Names : CleanupItem(n)
  \/ \E w \in StoreWorkloads : persistAlone(w)
  \/ cleanupPersistAlone
  \/ \E n \in Names : NetworkRemoved(n)
  \/ \E order \in Orders, late \in BOOLEAN : Restart(order, late)

SpecReload == InitPool /\ [][NextReload]_vars

(***************************************************************************)
(* Bastion server: validation (bastion/pkg/validation), the chain commands *)
(* (bastion/pkg/iptables) and the five handlers (unnamed/part_009).  The   *)
(* iptables commands do what they are asked; -N fails on a chain that      *)
(* exists and -A on one that does not.                                     *)
(***************************************************************************)
\* validation_test.go:290-306
ValidateChainName(chainName) == chainName \in ValidChainNames

\* validation_test.go:335-346
isPrivateIP(ip) ==
  \/ ip[1] = 10
  \/ ip[1] = 172 /\ ip[2] >= 16 /\ ip[2] <= 31
  \/ ip[1] = 192 /\ ip[2] = 168

\* validation_test.go:308-333 on the bytes the text spells (<<>>: no address)
ValidateContainerIP(ip) ==
  /\ Len(ip) \in {4, 16}
  /\ To4(ip) # <<>>
  /\ isPrivateIP(To4(ip))

\* validation_test.go:476-503: the workloads' ids are well-formed, the empty
\* string is not
ValidateContainerID(id) == id \in Workloads

\* validation_test.go:415-446: the pool's names are well-formed; 0 is a text
\* that does not start with iso-net-
ValidateNetworkName(name) == name \in Names

\* SHA-256 over subnetRange, minIPs and driver (validation_test.go:449-463)
\* for the two parameter sets of the model
HashOf(params) == IF params = "p1" THEN "h1" ELSE "h2"

\* validation_test.go:448-474
ValidateConfigHash(providedHash, params) == providedHash = HashOf(params)

\* the rules of a policy that its mode puts to use
UsedRules(policy) ==
  IF policy.Policy = "deny" THEN policy.Whitelist
  ELSE IF policy.Policy = "allow" THEN policy.Blacklist
  ELSE <<>>

\* a policy with a mode, a CIDR or a port that the checks of
\* bastion/pkg/validation refuse
MalformedPolicy(policy) ==
  \/ policy.Policy \notin {"allow", "deny"}
  \/ \E i \in DOMAIN UsedRules(policy) :
       \/ ~ParseCIDR(UsedRules(policy)[i].Cidr).ok
       \/ \E j \in DOMAIN UsedRules(policy)[i].Ports :
            ~ValidatePort(UsedRules(policy)[i].Ports[j])

\* an input of the request is malformed (the container id of the chain
\* operations, which only goes to the audit log, is not looked at)
Malformed(op, req) ==
  IF op = "SetupChain"
  THEN ~ValidateChainName(req.ChainName) \/ ~ValidateContainerIP(req.ContainerIp)
  ELSE IF op = "ApplyRules"
  THEN ~ValidateChainName(req.ChainName)
         \/ (req.hasPolicy /\ MalformedPolicy(req.Policy))
  ELSE IF op = "CleanupChain"
  THEN ~ValidateChainName(req.ChainName)
  ELSE IF op = "AcquireNetwork"
  THEN ~ValidateContainerID(req.ContainerId)
         \/ (req.hasNetworkConfig /\ ~ValidateConfigHash(req.ConfigHash, req.params))
  ELSE ~ValidateContainerID(req.ContainerId) \/ ~ValidateNetworkName(req.NetworkName)

\* a required message of the request is missing
Missing(op, req) ==
  \/ op = "ApplyRules" /\ ~req.hasPolicy
  \/ op = "AcquireNetwork" /\ ~req.hasNetworkConfig

\* the response of a call that ends in the handler
Response(op, req, success, error, code, ran) ==
  [op |-> op, invalid |-> Malformed(op, req), missing |-> Missing(op, req),
   Success |-> success, Error |-> error, status |-> code, ran |-> ran]

\* a handler returns without touching chains or pool
Returns(op, req, success, error, code, ran) ==
  /\ srv' = [srv EXCEPT !.last = Response(op, req, success, error, code, ran)]
  /\ UNCHANGED notServer

\* The context every command of one call runs under (ipv6_test.go:271,
\* 538-545): it is done from command number "expired" of the call on
\* (deadline reached or request cancelled), 0 when it outlives the call; a
\* command started under a done context fails.
Expiries == 0 .. 3

\* iptables.SetupChain (ipv6_test.go:270-303): [ok, chain, ran].  -N fails on
\* a chain that exists; the rollback commands run under the same context.
SetupChain(chain, expired) ==
  IF chain.v4 \/ expired = 1 THEN [ok |-> FALSE, chain |-> chain, ran |-> 1]
  ELSE IF chain.v6 \/ expired = 2
  THEN [ok |-> FALSE, chain |-> [chain EXCEPT !.v4 = (expired = 2)], ran |-> 3]
  ELSE IF expired = 3
  THEN [ok |-> FALSE,
        chain |-> [v4 |-> TRUE, v6 |-> TRUE, forward |-> FALSE, rules |-> FALSE],
        ran |-> 6]
  ELSE [ok |-> TRUE,
        chain |-> [v4 |-> TRUE, v6 |-> TRUE, forward |-> TRUE, rules |-> FALSE],
        ran |-> 3]

\* iptables.ApplyRules (ipv6_test.go:307-443) on a chain: [ok, chain, ran]
ApplyRulesOn(chain, policy) ==
  IF policy.Policy \notin {"allow", "deny"}
  THEN [ok |-> FALSE, chain |-> chain, ran |-> 0]
  ELSE IF ~chain.v4
  THEN [ok |-> FALSE, chain |-> chain, ran |-> 1]
  ELSE LET r == ApplyRulesResult(policy)
       IN  [ok |-> r.ok,
            chain |-> [chain EXCEPT !.rules = @ \/ r.rules # <<>>],
            ran |-> Len(r.rules)]

\* iptables.CleanupChain (ipv6_test.go:489-512): the number of commands run
CleanupChainRan(containerIP) == IF containerIP # <<>> THEN 5 ELSE 4

\* iptables.CleanupChain (ipv6_test.go:489-512): the chain it leaves.  The
\* FORWARD jump is deleted only when a container IP is passed; -F empties the
\* chain; -X fails on a chain a FORWARD rule still jumps to, and every error
\* is dropped.  The jump is in the IPv4 table (ValidateContainerIP admits
\* IPv4 addresses only).
CleanupChain(chain, containerIP) ==
  LET forward == IF containerIP # <<>> THEN FALSE ELSE chain.forward
  IN  [v4 |-> chain.v4 /\ forward, v6 |-> FALSE,
       forward |-> forward, rules |-> FALSE]

\* part_009:36-70
ServerSetupChain(req, expired) ==
  IF ~ValidateChainName(req.ChainName)
  THEN Returns("SetupChain", req, FALSE, "chain_name", "OK", 0)
  ELSE IF ~ValidateContainerIP(req.ContainerIp)
  THEN Returns("SetupChain", req, FALSE, "container_ip", "OK", 0)
  ELSE LET r == SetupChain(srv.chains[req.ChainName], expired)
       IN  /\ srv' = [chains |-> [srv.chains EXCEPT ![req.ChainName] = r.chain],
                      chainIPs |-> IF r.ok
                                   THEN [srv.chainIPs EXCEPT
                                           ![req.ChainName] = req.ContainerIp]
                                   ELSE srv.chainIPs,
                      last |-> Response("SetupChain", req, r.ok,
                                        IF r.ok THEN "" ELSE "iptables", "OK", r.ran)]
           /\ UNCHANGED notServer

\* part_009:82-85: status.Error(codes.InvalidArgument, ...)
NoPolicyStatus == "InvalidArgument"

\* part_009:72-102
ServerApplyRules(req) ==
  IF ~ValidateChainName(req.ChainName)
  THEN Returns("ApplyRules", req, FALSE, "chain_name", "OK", 0)
  ELSE IF ~req.hasPolicy
  THEN Returns("ApplyRules", req, FALSE, "", NoPolicyStatus, 0)
  ELSE LET r == ApplyRulesOn(srv.chains[req.ChainName], req.Policy)
       IN  /\ srv' = [srv EXCEPT
                        !.chains[req.ChainName] = r.chain,
                        !.last = Response("ApplyRules", req, r.ok,
                                          IF r.ok THEN "" ELSE "apply", "OK", r.ran)]
           /\ UNCHANGED notServer

\* part_009:104-133
ServerCleanupChain(req) ==
  IF ~ValidateChainName(req.ChainName)
  THEN Returns("CleanupChain", req, FALSE, "chain_name", "OK", 0)
  ELSE /\ srv' = [chains |-> [srv.chains EXCEPT ![req.ChainName] =
                                CleanupChain(@, srv.chainIPs[req.ChainName])],
                  chainIPs |-> [srv.chainIPs EXCEPT ![req.ChainName] = <<>>],
                  last |-> Response("CleanupChain", req, TRUE, "", "OK",
                                    CleanupChainRan(srv.chainIPs[req.ChainName]))]
       /\ UNCHANGED notServer

\* The Bastion process is started again (part_009:27-34): chainIPs is a
\* fresh map, the kernel's chains are what they were.  Taken here while the
\* pool holds no network and no call is in flight, where the pool the new
\* process loads is the pool the old one had.
ServerRestart ==
  /\ \A n \in Names : ~nets[n].present
  /\ \A w \in Workloads : call[w].pc = "idle"
  /\ cl.pc = "idle"
  /\ srv' = [NewServer EXCEPT !.chains = srv.chains]
  /\ UNCHANGED notServer

\* part_009:145-195: the checks, then Pool.Acquire
AcquireNetwork(req) ==
  IF ~req.hasNetworkConfig
  THEN Returns("AcquireNetwork", req, FALSE, "", "InvalidArgument", 0)
  ELSE IF ~ValidateContainerID(req.ContainerId)
  THEN Returns("AcquireNetwork", req, FALSE, "container_id", "OK", 0)
  ELSE IF ~ValidateConfigHash(req.ConfigHash, req.params)
  THEN Returns("AcquireNetwork", req, FALSE, "config_hash", "OK", 0)
  ELSE AcquireLocked(req.ContainerId, req.ConfigHash)

\* part_009:197-232: the checks, then Pool.Release
ReleaseNetwork(req) ==
  IF ~ValidateContainerID(req.ContainerId)
  THEN Returns("ReleaseNetwork", req, FALSE, "container_id", "OK", 0)
  ELSE IF ~ValidateNetworkName(req.NetworkName)
  THEN Returns("ReleaseNetwork", req, FALSE, "network_name", "OK", 0)
  ELSE ReleaseLocked(req.ContainerId, req.NetworkName, req.ForceCleanup)

\* the addresses a request may name as the container's: a private one, a
\* public one, an IPv6 one, and a text that is no address
ContainerIPs ==
  {<<172, 17, 0, 2>>, <<172, 32, 0, 2>>, Zeros(15) \o <<1>>, <<>>}

\* container ids a request may carry
ContainerIDs == StoreWorkloads \cup {""}

\* the rules a policy sent to the Bastion may list: a public range without
\* ports, with a port, with port 0, and a malformed CIDR text
BastionRules ==
  {NetworkRule(Public8, <<>>), NetworkRule(Public8, <<443>>),
   NetworkRule(Public8, <<0>>), NetworkRule(Cidr(<<1, 2, 3>>, 8), <<>>)}

\* the policies a client may send; nothing makes a client validate them
BastionPolicies ==
  [Policy : {"allow", "deny", "Deny"},
   BlockMetadata : {TRUE},
   AllowDns : {FALSE},
   DnsServers : {<<>>},
   Whitelist : SeqsUpTo(BastionRules, 1),
   Blacklist : {<<>>}]

SetupChainRequests ==
  {[NoRequest EXCEPT !.ChainName = n, !.ContainerIp = ip, !.ContainerId = "w1"] :
     n \in ChainNames, ip \in ContainerIPs}

ApplyRulesRequests ==
  {[NoRequest EXCEPT !.ChainName = n, !.ContainerId = "w1"] : n \in ChainNames}
    \cup {[NoRequest EXCEPT !.ChainName = n, !.ContainerId = "w1",
                            !.hasPolicy = TRUE, !.Policy = policy] :
            n \in ChainNames, policy \in BastionPolicies}

CleanupChainRequests ==
  {[NoRequest EXCEPT !.ChainName = n, !.ContainerId = id] :
     n \in ChainNames, id \in ContainerIDs}

AcquireNetworkRequests ==
  {[NoRequest EXCEPT !.ContainerId = id] : id \in ContainerIDs}
    \cup {[NoRequest EXCEPT !.ContainerId = id, !.hasNetworkConfig = TRUE,
                            !.params = "p1", !.ConfigHash = h] :
            id \in ContainerIDs, h \in Hashes}

ReleaseNetworkRequests ==
  {[NoRequest EXCEPT !.ContainerId = id, !.NetworkName = n, !.ForceCleanup = f] :
     id \in ContainerIDs, n \in 0..MaxNetworks, f \in BOOLEAN}

\* the five handlers, one call at a time, under contexts that outlive the
\* call (the contexts that expire are taken in SpecChains)
NextBastion ==
  \/ \E req \in SetupChainRequests : ServerSetupChain(req, 0)
  \/ \E req \in ApplyRulesRequests : ServerApplyRules(req)
  \/ \E req \in CleanupChainRequests : ServerCleanupChain(req)
  \/ \E req \in AcquireNetworkRequests : AcquireNetwork(req)
  \/ \E req \in ReleaseNetworkRequests : ReleaseNetwork(req)
  \/ \E w \in StoreWorkloads : createNetwork(w)
  \/ \E w \in StoreWorkloads : ReleaseCleanup(w)
  \/ \E w \in StoreWorkloads : persist(w)

SpecBastion == InitPool /\ [][NextBastion]_vars

\* the chain handlers of one Bastion process after another
NextChains ==
  \/ \E req \in SetupChainRequests, expired \in Expiries :
        ServerSetupChain(req, expired)
  \/ \E req \in ApplyRulesRequests : ServerApplyRules(req)
  \/ \E req \in CleanupChainRequests : ServerCleanupChain(req)
  \/ ServerRestart

SpecChains == InitPool /\ [][NextChains]_vars

(***************************************************************************)
(* SetupChain and CleanupChain of several clients at once (part_009:36-70, *)
(* 104-133).  gRPC runs every call in a goroutine of its own; s.chainMu is *)
(* held for the access to s.chainIPs alone, never across the iptables      *)
(* commands, so a handler is the steps below.  iptables.SetupChain and     *)
(* iptables.CleanupChain are each taken as one step.                       *)
(***************************************************************************)
\* one step of client k's call: the server and the call after it
ChainStep(k, server, ccall) ==
  /\ srv' = server
  /\ chainCall' = [chainCall EXCEPT ![k] = ccall]
  /\ UNCHANGED notChains

\* part_009:36-60: the checks and iptables.SetupChain
SetupChainInstalls(k, req, expired) ==
  /\ chainCall[k].pc = "idle"
  /\ IF ~ValidateChainName(req.ChainName)
     THEN ChainStep(k, [srv EXCEPT !.last = Response("SetupChain", req, FALSE,
                                               "chain_name", "OK", 0)],
                    NoChainCall)
     ELSE IF ~ValidateContainerIP(req.ContainerIp)
     THEN ChainStep(k, [srv EXCEPT !.last = Response("SetupChain", req, FALSE,
                                               "container_ip", "OK", 0)],
                    NoChainCall)
     ELSE LET r == SetupChain(srv.chains[req.ChainName], expired)
          IN  IF r.ok
              THEN ChainStep(k, [srv EXCEPT !.chains[req.ChainName] = r.chain],
                             [pc |-> "record", req |-> req, containerIP |-> <<>>])
              ELSE ChainStep(k, [srv EXCEPT
                                   !.chains[req.ChainName] = r.chain,
                                   !.last = Response("SetupChain", req, FALSE,
                                                     "iptables", "OK", r.ran)],
                             NoChainCall)

\* part_009:62-69: s.chainIPs[req.ChainName] = req.ContainerIp under chainMu,
\* and the response
SetupChainRecords(k) ==
  /\ chainCall[k].pc = "record"
  /\ LET req == chainCall[k].req
     IN  ChainStep(k, [srv EXCEPT
                         !.chainIPs[req.ChainName] = req.ContainerIp,
                         !.last = Response("SetupChain", req, TRUE, "", "OK", 3)],
                   NoChainCall)

\* part_009:104-115: the check, and containerIP read under chainMu.RLock
CleanupChainReads(k, req) ==
  /\ chainCall[k].pc = "idle"
  /\ IF ~ValidateChainName(req.ChainName)
     THEN ChainStep(k, [srv EXCEPT !.last = Response("CleanupChain", req, FALSE,
                                               "chain_name", "OK", 0)],
                    NoChainCall)
     ELSE ChainStep(k, srv,
                    [pc |-> "iptables", req |-> req,
                     containerIP |-> srv.chainIPs[req.ChainName]])

\* part_009:117: iptables.CleanupChain with the containerIP read before
CleanupChainRuns(k) ==
  /\ chainCall[k].pc = "iptables"
  /\ ChainStep(k, [srv EXCEPT !.chains[chainCall[k].req.ChainName] =
                                 CleanupChain(@, chainCall[k].containerIP)],
               [chainCall[k] EXCEPT !.pc = "delete"])

\* part_009:125-132: delete(s.chainIPs, req.ChainName) under chainMu, and the
\* response
CleanupChainDeletes(k) ==
  /\ chainCall[k].pc = "delete"
  /\ LET req == chainCall[k].req
     IN  ChainStep(k, [srv EXCEPT
                         !.chainIPs[req.ChainName] = <<>>,
                         !.last = Response("CleanupChain", req, TRUE, "", "OK",
                                           CleanupChainRan(chainCall[k].containerIP))],
                   NoChainCall)

NextChainCalls ==
  \/ \E k \in Clients, req \in SetupChainRequests, expired \in Expiries :
        SetupChainInstalls(k, req, expired)
  \/ \E k \in Clients : SetupChainRecords(k)
  \/ \E k \in Clients, req \in CleanupChainRequests : CleanupChainReads(k, req)
  \/ \E k \in Clients : CleanupChainRuns(k)
  \/ \E k \in Clients : CleanupChainDeletes(k)

SpecChainCalls == InitPool /\ [][NextChainCalls]_vars

(***************************************************************************)
(* The chain name of a workload: lifecycle.GenerateChainName               *)
(* (lifecycle_test.go:185-196) derives it from the container ID, and the   *)
(* Bastion's handlers check it with validation.ValidateChainName           *)
(* (validation_test.go:278, 290-306).  Texts are sequences of characters.  *)
(***************************************************************************)
\* characters an ID may hold: digits, lower-case and upper-case hex letters,
\* a letter that is no hex digit, and a separator
IDChars == {"0", "9", "a", "f", "A", "F", "g", "-"}

\* lifecycle_test.go:188: the characters GenerateChainName keeps
IsHexChar(ch) == ch \in {"0", "9", "a", "f", "A", "F"}

\* validation_test.go:278: the class [a-f0-9] of chainNameRegex
IsLowerHexChar(ch) == ch \in {"0", "9", "a", "f"}

\* lifecycle_test.go:190: the number of hex characters a chain name takes
ChainHexLen == 16

\* validation_test.go:291: the longest chain name ValidateChainName admits
MaxChainNameLen == 28

\* an ID is made of up to MaxRuns runs of one character each
MaxRuns == 3
RunLens == {1, 7, 16}

RECURSIVE Repeat(_, _)
Repeat(ch, n) == IF n = 0 THEN <<>> ELSE <<ch>> \o Repeat(ch, n - 1)

RECURSIVE Spell(_)
Spell(runs) ==
  IF runs = <<>> THEN <<>>
  ELSE Repeat(runs[1].ch, runs[1].n) \o Spell(Tail(runs))

\* the container IDs of the model
ContainerIDTexts ==
  {Spell(runs) : runs \in UNION {[1 .. m -> [ch : IDChars, n : RunLens]] :
                                   m \in 0 .. MaxRuns}}

\* lifecycle_test.go:186-194: the loop over the ID's characters; hexPart
\* collects hex characters until it holds 16
RECURSIVE HexPart(_, _)
HexPart(id, hexPart) ==
  IF id = <<>> \/ Len(hexPart) = ChainHexLen THEN hexPart
  ELSE IF IsHexChar(Head(id))
       THEN HexPart(Tail(id), Append(hexPart, Head(id)))
       ELSE HexPart(Tail(id), hexPart)

\* lifecycle_test.go:185-196: fmt.Sprintf("ISO-%s", hexPart)
GenerateChainName(id) ==
  <<"I", "S", "O", "-">> \o HexPart(id, <<>>)

\* validation_test.go:290-306 on the characters of the name: at most 28 of
\* them, and a match of ^ISO-[a-f0-9]{16}$
ValidateChainNameText(chainName) ==
  /\ Len(chainName) <= MaxChainNameLen
  /\ Len(chainName) = 4 + ChainHexLen
  /\ SubSeq(chainName, 1, 4) = <<"I", "S", "O", "-">>
  /\ \A i \in 5 .. Len(chainName) : IsLowerHexChar(chainName[i])

\* lifecycle_test.go:149: SetupNetworkIsolation derives the chain name.
\* GenerateChainName has one result, the name: it returns no error.
DeriveChainName ==
  /\ naming.pc = "called"
  /\ naming' = [naming EXCEPT !.pc = "named",
                              !.chainName = GenerateChainName(naming.containerID),
                              !.failed = FALSE]
  /\ UNCHANGED notNaming

\* part_009:37: the Bastion checks the name a request carries
CheckChainName ==
  /\ naming.pc = "named"
  /\ naming' = [naming EXCEPT !.pc = "checked",
                              !.accepted = ValidateChainNameText(naming.chainName)]
  /\ UNCHANGED notNaming

InitNaming ==
  /\ RunInit /\ runner = NewRunner /\ PolicyIdle /\ PoolInit /\ ServerInit
  /\ ManagerIdle
  /\ naming \in {[NoNaming EXCEPT !.pc = "called", !.containerID = id] :
                   id \in ContainerIDTexts}

NextNaming == DeriveChainName \/ CheckChainName

SpecNaming == InitNaming /\ [][NextNaming]_vars

(***************************************************************************)
(* The Container Manager's registry with several Run streams               *)
(* (manager.go:89-118, 240-280; service.go:33-80; part_001:364-458,        *)
(* 712-810).  Time is counted in ticks of 60 s.  What a stream does        *)
(* between Created and its end is the subject of SpecRun; here a stream    *)
(* creates its workload, ends, and runs its deferred function.             *)
(***************************************************************************)
\* len(m.containers)
Registered(containers) == {id \in IDs : containers[id].registered}

\* one step of stream s: its record and the registry after it
StreamStep(s, stream, containers) ==
  /\ mgr' = [mgr EXCEPT !.streams[s] = stream, !.containers = containers]
  /\ UNCHANGED notManager

\* service.go:46-73: the first message, a valid Create with or without a
\* container ID of the client's choice
RunRecvCreate(s, id) ==
  /\ mgr.streams[s].pc = "recvFirst"
  /\ StreamStep(s, [mgr.streams[s] EXCEPT !.pc = "create", !.containerID = id],
                mgr.containers)

\* a bug: the cap is never reached
capReached_Never(n) == FALSE

\* manager.go:96
capReached(n) == n >= MaxContainers

\* manager.go:89-107, one critical section of m.mu: the ID is generated if
\* the client gave none, and the workload is registered unless the cap is
\* reached or the ID is taken
RunRegister(s) ==
  LET st == mgr.streams[s]
      id == IF st.containerID = "" THEN Uuid[s] ELSE st.containerID
  IN  /\ st.pc = "create"
      /\ IF capReached(Cardinality(Registered(mgr.containers)))
            \/ mgr.containers[id].registered
         THEN StreamStep(s, [st EXCEPT !.pc = "defer"], mgr.containers)
         ELSE StreamStep(s, [st EXCEPT !.pc = "start", !.id = id],
                         [mgr.containers EXCEPT ![id] = NewWorkload(s)])

\* manager.go:109-117 and service.go:76-80 with Container.Start
\* (part_001:387-458): the runner is spawned and containerID = id, or Start
\* fails (state is not CREATED, or the spawn fails) and the entry is deleted
RunStart(s, spawned) ==
  LET st == mgr.streams[s]
      w == mgr.containers[st.id]
  IN  /\ st.pc = "start"
      /\ IF w.state = "CREATED" /\ spawned
         THEN StreamStep(s, [st EXCEPT !.pc = "loop", !.containerID = st.id,
                                       !.created = TRUE],
                         [mgr.containers EXCEPT ![st.id] =
                            [w EXCEPT !.state = "RUNNING", !.alive = TRUE,
                                      !.started = TRUE]])
         ELSE StreamStep(s, [st EXCEPT !.pc = "defer"],
                         [mgr.containers EXCEPT ![st.id] = NoWorkload])

\* Manager.TerminateContainer (manager.go:177-184) with Container.Terminate
\* (part_001:754-810), up to its return: the registry after the call
TerminateContainer(containers, id, now) ==
  IF id = "" \/ ~containers[id].registered THEN containers
  ELSE LET w == containers[id]
       IN  IF w.state # "RUNNING"
           THEN [containers EXCEPT ![id] =
                   [w EXCEPT !.state = "TERMINATED",
                             !.finishedAt = IF @ = -1 THEN now ELSE @]]
           ELSE IF ~w.alive THEN containers
           ELSE [containers EXCEPT ![id] =
                   [w EXCEPT !.state = "TERMINATED", !.alive = FALSE]]

\* TerminateContainer returns nil
Terminated(containers, id) ==
  /\ id # "" /\ containers[id].registered
  /\ containers[id].state = "RUNNING" => containers[id].alive

\* service.go:156-167 and 238-253: the client's Terminate request ends the
\* stream; cleanupDone is set when the workload was terminated and waited for
RunTerminate(s) ==
  LET st == mgr.streams[s]
  IN  /\ st.pc = "loop"
      /\ StreamStep(s, [st EXCEPT !.pc = "defer",
                          !.cleanupDone = Terminated(mgr.containers, st.containerID)],
                    TerminateContainer(mgr.containers, st.containerID, mgr.now))

\* service.go:185-236: the stream ends otherwise (cancelled, heartbeat lost,
\* send failed: cleanupDone stays false; output channels closed: it is set)
RunEnds(s, done) ==
  LET st == mgr.streams[s]
  IN  /\ st.pc = "loop"
      /\ done => ~mgr.containers[st.containerID].alive
      /\ StreamStep(s, [st EXCEPT !.pc = "defer", !.cleanupDone = done],
                    mgr.containers)

\* service.go:38-44: the deferred function
RunDeferred(s) ==
  LET st == mgr.streams[s]
  IN  /\ st.pc = "defer"
      /\ IF st.containerID # "" /\ ~st.cleanupDone
         THEN StreamStep(s, [st EXCEPT !.pc = "returned", !.cleanupDone = TRUE],
                         TerminateContainer(mgr.containers, st.containerID, mgr.now))
         ELSE StreamStep(s, [st EXCEPT !.pc = "returned"], mgr.containers)

\* the runner process of a workload exits on its own
WorkloadExits(id) ==
  /\ mgr.containers[id].alive
  /\ mgr' = [mgr EXCEPT !.containers[id].alive = FALSE]
  /\ UNCHANGED notManager

\* cmd.Wait has returned in monitor and its result is not stored yet
MonitorPending(w) == w.started /\ ~w.alive /\ ~w.monitored

\* Container.monitor after cmd.Wait returned (part_001:712-752)
monitor(id, exitCode) ==
  /\ MonitorPending(mgr.containers[id])
  /\ mgr' = [mgr EXCEPT !.containers[id] =
               [@ EXCEPT !.monitored = TRUE,
                         !.state = IF exitCode = 0 THEN "EXITED" ELSE "FAILED",
                         !.finishedAt = mgr.now,
                         !.cleanupAfter = mgr.now + CleanupDelay]]
  /\ UNCHANGED notManager

\* a bug: every workload that has finished is swept
Due_AnyFinished(w, now) == w.cleanupAfter # -1

\* manager.go:275
Due(w, now) == w.cleanupAfter # -1 /\ now >= w.cleanupAfter

\* a sweep is to run at this tick (manager.go:253-264)
SweepDue == mgr.now > 0 /\ mgr.now % SweepEvery = 0 /\ mgr.swept # mgr.now

\* Manager.cleanupExitedContainers (manager.go:266-280)
Sweep ==
  /\ SweepDue
  /\ mgr' = [mgr EXCEPT
               !.containers = [id \in IDs |->
                  IF mgr.containers[id].registered /\ Due(mgr.containers[id], mgr.now)
                  THEN NoWorkload ELSE mgr.containers[id]],
               !.swept = mgr.now]
  /\ UNCHANGED notManager

\* 60 s pass: the steps of CreateContainer and of the deferred function,
\* monitor's 50 ms and a sweep that is due come first
Minute ==
  /\ mgr.now < MaxNow
  /\ ~SweepDue
  /\ \A s \in Streams : mgr.streams[s].pc \notin {"create", "start", "defer"}
  /\ \A id \in IDs : ~MonitorPending(mgr.containers[id])
  /\ mgr' = [mgr EXCEPT !.now = @ + 1]
  /\ UNCHANGED notManager

NextManager ==
  \/ \E s \in Streams, id \in ClientIDs : RunRecvCreate(s, id)
  \/ \E s \in Streams : RunRegister(s)
  \/ \E s \in Streams, spawned \in BOOLEAN : RunStart(s, spawned)
  \/ \E s \in Streams : RunTerminate(s)
  \/ \E s \in Streams, done \in BOOLEAN : RunEnds(s, done)
  \/ \E s \in Streams : RunDeferred(s)
  \/ \E id \in IDs : WorkloadExits(id)
  \/ \E id \in IDs, exitCode \in ExitCodes : monitor(id, exitCode)
  \/ Sweep
  \/ Minute

InitManager ==
  RunInit /\ RunnerInit /\ PolicyIdle /\ PoolInit /\ ServerInit /\ ManagerIdle

SpecManager == InitManager /\ [][NextManager]_vars

(***************************************************************************)
(* Channel helpers.                                                        *)
(***************************************************************************)
\* errCh <- e (service.go:118,136,139,162,166); two senders, capacity 2
SendErr(ch, e) == Append(ch, e)

\* select { case ch <- v: default: } on a channel of capacity cap
TrySend(ch, v, cap) == IF Len(ch) < cap THEN Append(ch, v) ELSE ch

Last(s) == s[Len(s)]

(***************************************************************************)
(* container.Container: Terminate, monitor, Close  (unnamed/part_001)      *)
(***************************************************************************)
\* TerminateContainer -> GetContainer -> Container.Terminate, up to the point
\* where it either returns or starts waiting for the process:
\*   "notfound"  the ID is not in the manager's map
\*   "marked"    state was CREATED/EXITED/FAILED/TERMINATED: set TERMINATED, nil
\*   "sigfail"   RUNNING but the process has finished: SIGTERM fails, error
\*   "pending"   SIGTERM sent, waiting for exit or timeout
TerminateOutcome(id) ==
  IF id = "" \/ ~c.registered THEN "notfound"
  ELSE IF c.state # "RUNNING" THEN "marked"
  ELSE IF ~c.alive THEN "sigfail"
  ELSE "pending"

\* the workload after the first part of Terminate
TerminateBegun(id) ==
  IF TerminateOutcome(id) = "marked" THEN [c EXCEPT !.state = "TERMINATED"] ELSE c

\* timeoutSecs of a Terminate request, 0 replaced by 5 (service.go:157-160)
TerminateTimeout(m) == IF m.timeout = 0 THEN DefaultTerminateTimeout ELSE m.timeout

\* the workload after Terminate's select: the process exited, or Kill after timeout
TerminateEnded ==
  [c EXCEPT !.state = "TERMINATED", !.alive = FALSE,
            !.pcode = IF c.alive THEN KilledCode ELSE c.pcode]

WorkloadRunning == c.state = "RUNNING" /\ c.alive

CreatedSent == sent # <<>> /\ sent[1] = "Created"

\* The manager process runs (no goroutine has panicked) and the stream's
\* handler has not returned: a stream is followed until its handler returns.
Live == ~panicked /\ hpc # "returned"

\* a step of the manager that is ready to run: it runs before 5 s pass
Urgent ==
  \/ hpc \in {"create", "sendCreated", "defer"}
  \/ hpc = "recvFirst" /\ (inbox # <<>> \/ ctxDone \/ clientState = "halfClosed")
  \/ hpc = "loop" /\ (errCh # <<>> \/ ctxDone \/ c.chClosed)
  \/ hpc = "wait" /\ (c.exitCh # <<>> \/ waitLeft = 0)
  \/ hbpc = "run" /\ (tickPending \/ heartbeatCh > 0 \/ ctxDone)
  \/ rpc = "recv" /\ (inbox # <<>> \/ ctxDone \/ clientState = "halfClosed")
  \/ rpc = "sendStdin" /\ stdinCh.len < StdinChanCap
  \/ fpc = "range" /\ (stdinCh.len > 0 \/ stdinCh.closed)
  \/ fpc = "writing" /\ ~c.alive
  \/ c.state # "CREATED" /\ ~c.alive /\ ~c.monitored
  \/ c.readers /\ ~c.alive
  \/ \E k \in Callers : term[k].pc = "wait" /\ (~c.alive \/ term[k].left = 0)

\* some timer of the model is running
TimersRunning ==
  \/ hbpc = "run"
  \/ hpc = "wait"
  \/ \E k \in Callers : term[k].pc = "wait"
  \/ c.registered /\ c.cleanupAfterSet /\ c.finishAge < CleanupAfter

(***************************************************************************)
(* The client and the transport.                                           *)
(***************************************************************************)
\* The client writes a request.  The first request is written when the
\* stream opens; later requests after Created arrived.  The client writes
\* when the server has nothing ready to do: requests queue up only behind a
\* blocked receive goroutine.
ClientSend(m, maxStdin) ==
  /\ Live /\ status = "open" /\ ~ctxDone /\ clientState = "open"
  /\ ~Urgent
  /\ Len(inbox) < MaxInbox
  /\ m.kind = "Stdin" => nStdin < maxStdin
  /\ nStdin' = IF m.kind = "Stdin" THEN nStdin + 1 ELSE nStdin
  /\ IF hpc = "recvFirst" THEN inbox = <<>>
     ELSE CreatedSent /\ m.kind # "Create"
  /\ inbox' = Append(inbox, m)
  /\ hist' = IF m.kind = "Heartbeat" THEN [hist EXCEPT !.sinceClientHb = 0] ELSE hist
  /\ UNCHANGED <<notRun, hpc, containerID, cleanupDone, sent, status, errCh, stdinCh,
                 heartbeatCh, sinceHeartbeat, tickPending, hbpc, rpc, fpc,
                 clientState, ctxDone, panicked, c, term, waitLeft>>

\* The client closes its send side (Recv returns io.EOF after the buffered requests).
ClientCloseSend ==
  /\ Live /\ status = "open" /\ ~ctxDone /\ clientState = "open"
  /\ ~Urgent
  /\ clientState' = "halfClosed"
  /\ UNCHANGED <<notRun, hpc, containerID, cleanupDone, sent, status, errCh, stdinCh,
                 heartbeatCh, sinceHeartbeat, tickPending, hbpc, rpc, fpc, inbox,
                 ctxDone, panicked, c, term, waitLeft, hist, nStdin>>

\* The stream context is cancelled: client disconnect, network break, server shutdown.
CtxCancel ==
  /\ Live /\ status = "open" /\ ~ctxDone
  /\ ctxDone' = TRUE
  /\ inbox' = <<>>
  /\ hist' = [hist EXCEPT !.cancelled = TRUE,
                           !.cancelledRunning = CreatedSent /\ WorkloadRunning]
  /\ UNCHANGED <<notRun, hpc, containerID, cleanupDone, sent, status, errCh, stdinCh,
                 heartbeatCh, sinceHeartbeat, tickPending, hbpc, rpc, fpc,
                 clientState, panicked, c, term, waitLeft, nStdin>>

(***************************************************************************)
(* Run: the handler goroutine  (service.go:33-255)                         *)
(***************************************************************************)
\* service.go:46-73: the first message must be a valid Create
RecvFirst ==
  /\ Live /\ hpc = "recvFirst"
  /\ \/ /\ ctxDone \/ (inbox = <<>> /\ clientState = "halfClosed")
        /\ status' = "InvalidArgument" /\ hpc' = "defer"
        /\ UNCHANGED <<notRun, containerID, inbox, nStdin>>
     \/ /\ ~ctxDone /\ inbox # <<>>
        /\ inbox' = Tail(inbox)
        /\ \E validConfig \in BOOLEAN :
             IF Head(inbox).kind = "Create" /\ validConfig
             THEN /\ containerID' = Head(inbox).id
                  /\ hpc' = "create"
                  /\ UNCHANGED status
             ELSE /\ status' = "InvalidArgument" /\ hpc' = "defer"
                  /\ UNCHANGED containerID
  /\ UNCHANGED <<notRun, cleanupDone, sent, errCh, stdinCh, heartbeatCh, sinceHeartbeat,
                 tickPending, hbpc, rpc, fpc, clientState, ctxDone, panicked, c,
                 term, waitLeft, hist, nStdin>>

\* service.go:75-80 with manager.CreateContainer (manager.go:89-118) and
\* Container.Start: the workload is registered and its runner process spawned,
\* or creation fails (cap reached, ID exists, spawn failed)
CreateContainer ==
  /\ Live /\ hpc = "create"
  /\ \/ /\ c' = [NewContainer EXCEPT !.registered = TRUE, !.state = "RUNNING",
                                     !.alive = TRUE, !.readers = TRUE]
        /\ containerID' = "c1"
        /\ hpc' = "sendCreated"
        /\ UNCHANGED status
     \/ /\ status' = "Internal" /\ hpc' = "defer"
        /\ UNCHANGED <<c, containerID>>
  /\ UNCHANGED <<notRun, cleanupDone, sent, errCh, stdinCh, heartbeatCh, sinceHeartbeat,
                 tickPending, hbpc, rpc, fpc, inbox, clientState, ctxDone, panicked,
                 term, waitLeft, hist, nStdin>>

\* a bug: the loop is entered without the Created event having been sent
SendCreated_Skipped ==
  /\ Live /\ hpc = "sendCreated"
  /\ hpc' = "loop" /\ hbpc' = "run" /\ rpc' = "recv" /\ fpc' = "range"
  /\ sinceHeartbeat' = 1
  /\ UNCHANGED <<notRun, containerID, cleanupDone, sent, status, errCh, stdinCh,
                 heartbeatCh, tickPending, inbox, clientState, ctxDone, panicked,
                 c, term, waitLeft, hist, nStdin>>

\* service.go:82-180: send Created, subscribe, start the three goroutines
SendCreated ==
  /\ Live /\ hpc = "sendCreated"
  /\ IF ctxDone
     THEN /\ status' = "Canceled" /\ hpc' = "defer"
          /\ UNCHANGED <<sent, hbpc, rpc, fpc, sinceHeartbeat, hist>>
     ELSE /\ sent' = Append(sent, "Created")
          /\ hpc' = "loop" /\ hbpc' = "run" /\ rpc' = "recv" /\ fpc' = "range"
          /\ sinceHeartbeat' = 1
          /\ hist' = [hist EXCEPT !.sinceClientHb = 0]
          /\ UNCHANGED status
  /\ UNCHANGED <<notRun, containerID, cleanupDone, errCh, stdinCh, heartbeatCh,
                 tickPending, inbox, clientState, ctxDone, panicked, c, term,
                 waitLeft, nStdin>>

\* label done (service.go:238-240): WaitContainer looks the workload up
GoDone ==
  IF c.registered
  THEN /\ hpc' = "wait" /\ waitLeft' = WaitTimeout
       /\ UNCHANGED <<status, cleanupDone>>
  ELSE /\ hpc' = "defer" /\ status' = "OK" /\ cleanupDone' = TRUE
       /\ UNCHANGED waitLeft

\* service.go:185-223: forward one chunk of stdout, stderr or a message (three
\* branches of the same shape)
LoopOutput ==
  /\ Live /\ hpc = "loop" /\ ~c.chClosed
  /\ IF ctxDone
     THEN /\ status' = "Canceled" /\ hpc' = "defer" /\ UNCHANGED sent
     ELSE /\ Len(sent) <= MaxSent
          /\ sent' = Append(sent, "Output") /\ UNCHANGED <<status, hpc>>
  /\ UNCHANGED <<notRun, containerID, cleanupDone, errCh, stdinCh, heartbeatCh,
                 sinceHeartbeat, tickPending, hbpc, rpc, fpc, inbox, clientState,
                 ctxDone, panicked, c, term, waitLeft, hist, nStdin>>

\* service.go:186-189,200-202,213-215: a broadcast channel is closed
LoopChClosed ==
  /\ Live /\ hpc = "loop" /\ c.chClosed
  /\ GoDone
  /\ UNCHANGED <<notRun, containerID, sent, errCh, stdinCh, heartbeatCh, sinceHeartbeat,
                 tickPending, hbpc, rpc, fpc, inbox, clientState, ctxDone, panicked,
                 c, term, hist, nStdin>>

\* service.go:225-230: a value arrives on errCh
LoopErr ==
  /\ Live /\ hpc = "loop" /\ errCh # <<>>
  /\ errCh' = Tail(errCh)
  /\ IF Head(errCh) # "nil"
     THEN /\ status' = Head(errCh) /\ hpc' = "defer"
          /\ UNCHANGED <<notRun, cleanupDone, waitLeft, nStdin>>
     ELSE GoDone
  /\ UNCHANGED <<notRun, containerID, sent, stdinCh, heartbeatCh, sinceHeartbeat,
                 tickPending, hbpc, rpc, fpc, inbox, clientState, ctxDone, panicked,
                 c, term, hist, nStdin>>

\* service.go:232-234: the stream context is done
LoopCtxDone ==
  /\ Live /\ hpc = "loop" /\ ctxDone
  /\ GoDone
  /\ UNCHANGED <<notRun, containerID, sent, errCh, stdinCh, heartbeatCh, sinceHeartbeat,
                 tickPending, hbpc, rpc, fpc, inbox, clientState, ctxDone, panicked,
                 c, term, hist, nStdin>>

\* service.go:240-254 with Container.Wait: the exit code arrives in time
WaitExit ==
  /\ Live /\ hpc = "wait" /\ c.exitCh # <<>>
  /\ c' = [c EXCEPT !.exitCh = Tail(c.exitCh)]
  /\ sent' = IF ctxDone THEN sent ELSE Append(sent, "Exit")
  /\ cleanupDone' = TRUE /\ status' = "OK" /\ hpc' = "defer"
  /\ UNCHANGED <<notRun, containerID, errCh, stdinCh, heartbeatCh, sinceHeartbeat,
                 tickPending, hbpc, rpc, fpc, inbox, clientState, ctxDone, panicked,
                 term, waitLeft, hist, nStdin>>

\* service.go:240-254 with Container.Wait: timeout after 10 s, no Exit is sent
WaitTimedOut ==
  /\ Live /\ hpc = "wait" /\ waitLeft = 0
  /\ cleanupDone' = TRUE /\ status' = "OK" /\ hpc' = "defer"
  /\ UNCHANGED <<notRun, containerID, sent, errCh, stdinCh, heartbeatCh, sinceHeartbeat,
                 tickPending, hbpc, rpc, fpc, inbox, clientState, ctxDone, panicked,
                 c, term, waitLeft, hist, nStdin>>

\* service.go:38-44: the deferred function, run when the handler returns
Deferred ==
  /\ Live /\ hpc = "defer"
  /\ IF containerID # "" /\ ~cleanupDone
     THEN /\ c' = TerminateBegun(containerID)
          /\ hist' = [hist EXCEPT !.forcedByDefer = TRUE,
                        !.termCalls = IF TerminateOutcome(containerID) = "notfound"
                                      THEN @ ELSE 1]
          /\ IF TerminateOutcome(containerID) = "pending"
             THEN /\ term' = [term EXCEPT !["defer"] =
                                [pc |-> "wait", left |-> DeferTimeout]]
                  /\ hpc' = "deferTerm"
                  /\ UNCHANGED <<notRun, cleanupDone, ctxDone, nStdin>>
             ELSE /\ cleanupDone' = TRUE /\ hpc' = "returned" /\ ctxDone' = TRUE
                  /\ UNCHANGED term
     ELSE /\ hpc' = "returned" /\ ctxDone' = TRUE
          /\ UNCHANGED <<c, hist, term, cleanupDone>>
  /\ UNCHANGED <<notRun, containerID, sent, status, errCh, stdinCh, heartbeatCh,
                 sinceHeartbeat, tickPending, hbpc, rpc, fpc, inbox, clientState,
                 panicked, waitLeft, nStdin>>

\* Container.Terminate returns to the deferred function: the process exited
\* after SIGTERM, or the timeout passed and it was killed
DeferTerminated ==
  /\ Live /\ hpc = "deferTerm" /\ term["defer"].pc = "wait"
  /\ ~c.alive \/ term["defer"].left = 0
  /\ c' = TerminateEnded
  /\ term' = [term EXCEPT !["defer"] = TermIdle]
  /\ cleanupDone' = TRUE /\ hpc' = "returned" /\ ctxDone' = TRUE
  /\ UNCHANGED <<notRun, containerID, sent, status, errCh, stdinCh, heartbeatCh,
                 sinceHeartbeat, tickPending, hbpc, rpc, fpc, inbox, clientState,
                 panicked, waitLeft, hist, nStdin>>

(***************************************************************************)
(* The workload's runner process and Container.monitor; the sweeper.       *)
(***************************************************************************)
\* the runner process exits on its own with some code
ProcExit(code) ==
  /\ Live /\ c.alive
  /\ c' = [c EXCEPT !.alive = FALSE, !.pcode = code]
  /\ UNCHANGED <<notRun, hpc, containerID, cleanupDone, sent, status, errCh, stdinCh,
                 heartbeatCh, sinceHeartbeat, tickPending, hbpc, rpc, fpc, inbox,
                 clientState, ctxDone, panicked, term, waitLeft, hist, nStdin>>

\* Container.monitor after cmd.Wait returned (part_001:712-752)
MonitorExit ==
  /\ Live /\ c.state # "CREATED" /\ ~c.alive /\ ~c.monitored
  /\ c' = [c EXCEPT !.monitored = TRUE,
                    !.state = IF c.pcode = 0 THEN "EXITED" ELSE "FAILED",
                    !.cleanupAfterSet = TRUE, !.finishAge = 0,
                    !.exitCh = TrySend(c.exitCh, c.pcode, ExitChanCap)]
  /\ UNCHANGED <<notRun, hpc, containerID, cleanupDone, sent, status, errCh, stdinCh,
                 heartbeatCh, sinceHeartbeat, tickPending, hbpc, rpc, fpc, inbox,
                 clientState, ctxDone, panicked, term, waitLeft, hist, nStdin>>

\* Manager.cleanupExitedContainers (manager.go:266-280): Close and delete
cleanupExitedContainers ==
  /\ Live /\ c.registered /\ c.cleanupAfterSet /\ c.finishAge >= CleanupAfter
  /\ c' = [c EXCEPT !.registered = FALSE, !.chClosed = TRUE]
  /\ UNCHANGED <<notRun, hpc, containerID, cleanupDone, sent, status, errCh, stdinCh,
                 heartbeatCh, sinceHeartbeat, tickPending, hbpc, rpc, fpc, inbox,
                 clientState, ctxDone, panicked, term, waitLeft, hist, nStdin>>

\* Container.readOutput (part_001:610-641): the scanner reaches the end of the
\* pipes of a runner process that has exited, and the goroutines return
readOutputEnds ==
  /\ ~panicked /\ c.readers /\ ~c.alive
  /\ c' = [c EXCEPT !.readers = FALSE]
  /\ UNCHANGED <<notRun, hpc, containerID, cleanupDone, sent, status, errCh, stdinCh,
                 heartbeatCh, sinceHeartbeat, tickPending, hbpc, rpc, fpc, inbox,
                 clientState, ctxDone, panicked, term, waitLeft, hist, nStdin>>

\* Container.readOutput (part_001:629-639): a line read from a pipe is sent
\* with select { case ch <- data: default: }.  On an open channel the line is
\* buffered or dropped (LoopOutput takes what was buffered); on a closed one
\* the send panics.
readOutput ==
  /\ ~panicked /\ c.readers /\ c.chClosed
  /\ panicked' = TRUE
  /\ hist' = [hist EXCEPT !.sentOnClosed = TRUE]
  /\ UNCHANGED <<notRun, hpc, containerID, cleanupDone, sent, status, errCh, stdinCh,
                 heartbeatCh, sinceHeartbeat, tickPending, hbpc, rpc, fpc, inbox,
                 clientState, ctxDone, c, term, waitLeft, nStdin>>

\* Manager.Stop (manager.go:319-329), deferred in main until Serve has
\* returned, that is until every Run handler has returned (main.go:31,48-54):
\* Close on every workload still in the map, whatever its state.  Close
\* cancels the workload's context, which kills a runner that still runs, and
\* closes the three broadcast channels (part_001:895-905).
Stop ==
  /\ ~panicked /\ hpc = "returned"
  /\ c.registered /\ ~c.chClosed
  /\ c' = [c EXCEPT !.chClosed = TRUE, !.alive = FALSE,
                    !.pcode = IF c.alive THEN KilledCode ELSE c.pcode]
  /\ UNCHANGED <<notRun, hpc, containerID, cleanupDone, sent, status, errCh, stdinCh,
                 heartbeatCh, sinceHeartbeat, tickPending, hbpc, rpc, fpc, inbox,
                 clientState, ctxDone, panicked, term, waitLeft, hist, nStdin>>

(***************************************************************************)
(* Run: the heartbeat monitor goroutine  (service.go:109-127)              *)
(***************************************************************************)
\* case <-ticker.C
HbTick ==
  /\ Live /\ hbpc = "run" /\ tickPending
  /\ tickPending' = FALSE
  /\ IF sinceHeartbeat > HeartbeatTimeout
     THEN /\ errCh' = SendErr(errCh, "DeadlineExceeded")
          /\ hbpc' = "stopped"
          /\ hist' = [hist EXCEPT !.deadlineFired = TRUE]
     ELSE UNCHANGED <<errCh, hbpc, hist>>
  /\ UNCHANGED <<notRun, hpc, containerID, cleanupDone, sent, status, stdinCh, heartbeatCh,
                 sinceHeartbeat, rpc, fpc, inbox, clientState, ctxDone, panicked,
                 c, term, waitLeft, nStdin>>

\* case <-heartbeatCh
HbBeat ==
  /\ Live /\ hbpc = "run" /\ heartbeatCh > 0
  /\ heartbeatCh' = heartbeatCh - 1
  /\ sinceHeartbeat' = 0
  /\ UNCHANGED <<notRun, hpc, containerID, cleanupDone, sent, status, errCh, stdinCh,
                 tickPending, hbpc, rpc, fpc, inbox, clientState, ctxDone,
                 panicked, c, term, waitLeft, hist, nStdin>>

\* case <-stream.Context().Done()
HbCtxDone ==
  /\ Live /\ hbpc = "run" /\ ctxDone
  /\ hbpc' = "stopped"
  /\ UNCHANGED <<notRun, hpc, containerID, cleanupDone, sent, status, errCh, stdinCh,
                 heartbeatCh, sinceHeartbeat, tickPending, rpc, fpc, inbox,
                 clientState, ctxDone, panicked, c, term, waitLeft, hist, nStdin>>

(***************************************************************************)
(* Run: the receive goroutine  (service.go:130-170)                        *)
(***************************************************************************)
\* stream.Recv() fails: io.EOF after a half-close, an error after cancellation
RecvEnd ==
  /\ Live /\ rpc = "recv"
  /\ ctxDone \/ (inbox = <<>> /\ clientState = "halfClosed")
  /\ errCh' = SendErr(errCh, IF ctxDone THEN "Canceled" ELSE "nil")
  /\ rpc' = "stopped"
  /\ UNCHANGED <<notRun, hpc, containerID, cleanupDone, sent, status, stdinCh, heartbeatCh,
                 sinceHeartbeat, tickPending, hbpc, fpc, inbox, clientState,
                 ctxDone, panicked, c, term, waitLeft, hist, nStdin>>

\* a Stdin request: stdinCh <- stdin (blocks while the channel is full)
RecvStdin ==
  /\ Live /\ rpc = "recv" /\ ~ctxDone
  /\ inbox # <<>> /\ Head(inbox).kind = "Stdin"
  /\ inbox' = Tail(inbox)
  /\ IF stdinCh.closed
     THEN panicked' = TRUE /\ UNCHANGED <<stdinCh, rpc>>
     ELSE /\ UNCHANGED panicked
          /\ IF stdinCh.len < StdinChanCap
             THEN stdinCh' = [stdinCh EXCEPT !.len = @ + 1] /\ UNCHANGED rpc
             ELSE rpc' = "sendStdin" /\ UNCHANGED stdinCh
  /\ UNCHANGED <<notRun, hpc, containerID, cleanupDone, sent, status, errCh, heartbeatCh,
                 sinceHeartbeat, tickPending, hbpc, fpc, clientState, ctxDone,
                 c, term, waitLeft, hist, nStdin>>

\* the blocked send on stdinCh completes once the forwarder took an element
RecvStdinUnblocked ==
  /\ Live /\ rpc = "sendStdin" /\ stdinCh.len < StdinChanCap
  /\ stdinCh' = [stdinCh EXCEPT !.len = @ + 1]
  /\ rpc' = "recv"
  /\ UNCHANGED <<notRun, hpc, containerID, cleanupDone, sent, status, errCh, heartbeatCh,
                 sinceHeartbeat, tickPending, hbpc, fpc, inbox, clientState,
                 ctxDone, panicked, c, term, waitLeft, hist, nStdin>>

\* a CloseStdin request: close(stdinCh)
RecvCloseStdin ==
  /\ Live /\ rpc = "recv" /\ ~ctxDone
  /\ inbox # <<>> /\ Head(inbox).kind = "CloseStdin"
  /\ inbox' = Tail(inbox)
  /\ IF stdinCh.closed
     THEN panicked' = TRUE /\ UNCHANGED stdinCh
     ELSE stdinCh' = [stdinCh EXCEPT !.closed = TRUE] /\ UNCHANGED panicked
  /\ UNCHANGED <<notRun, hpc, containerID, cleanupDone, sent, status, errCh, heartbeatCh,
                 sinceHeartbeat, tickPending, hbpc, rpc, fpc, clientState, ctxDone,
                 c, term, waitLeft, hist, nStdin>>

\* a Heartbeat request: non-blocking send on heartbeatCh
RecvHeartbeat ==
  /\ Live /\ rpc = "recv" /\ ~ctxDone
  /\ inbox # <<>> /\ Head(inbox).kind = "Heartbeat"
  /\ inbox' = Tail(inbox)
  /\ heartbeatCh' = Min(heartbeatCh + 1, HeartbeatChanCap)
  /\ UNCHANGED <<notRun, hpc, containerID, cleanupDone, sent, status, errCh, stdinCh,
                 sinceHeartbeat, tickPending, hbpc, rpc, fpc, clientState, ctxDone,
                 panicked, c, term, waitLeft, hist, nStdin>>

\* a Terminate request (service.go:156-167): TerminateContainer is called
RecvTerminate ==
  /\ Live /\ rpc = "recv" /\ ~ctxDone
  /\ inbox # <<>> /\ Head(inbox).kind = "Terminate"
  /\ inbox' = Tail(inbox)
  /\ c' = TerminateBegun(containerID)
  /\ hist' = [hist EXCEPT !.termCalls =
                IF TerminateOutcome(containerID) = "notfound" THEN @ ELSE 1]
  /\ IF TerminateOutcome(containerID) = "pending"
     THEN /\ term' = [term EXCEPT !["recv"] =
                        [pc |-> "wait", left |-> TerminateTimeout(Head(inbox))]]
          /\ rpc' = "terminating"
          /\ UNCHANGED <<errCh, cleanupDone>>
     ELSE /\ rpc' = "stopped"
          /\ UNCHANGED term
          /\ IF TerminateOutcome(containerID) = "marked"
             THEN cleanupDone' = TRUE /\ errCh' = SendErr(errCh, "nil")
             ELSE errCh' = SendErr(errCh, "Unknown") /\ UNCHANGED cleanupDone
  /\ UNCHANGED <<notRun, hpc, containerID, sent, status, stdinCh, heartbeatCh,
                 sinceHeartbeat, tickPending, hbpc, fpc, clientState, ctxDone,
                 panicked, waitLeft, nStdin>>

\* Container.Terminate returns to the receive goroutine
RecvTerminated ==
  /\ Live /\ rpc = "terminating" /\ term["recv"].pc = "wait"
  /\ ~c.alive \/ term["recv"].left = 0
  /\ c' = TerminateEnded
  /\ term' = [term EXCEPT !["recv"] = TermIdle]
  /\ cleanupDone' = TRUE
  /\ errCh' = SendErr(errCh, "nil")
  /\ rpc' = "stopped"
  /\ UNCHANGED <<notRun, hpc, containerID, sent, status, stdinCh, heartbeatCh,
                 sinceHeartbeat, tickPending, hbpc, fpc, inbox, clientState,
                 ctxDone, panicked, waitLeft, hist, nStdin>>

(***************************************************************************)
(* Run: the stdin forwarder goroutine  (service.go:173-180)                *)
(***************************************************************************)
\* for data := range stdinCh: take one element and call WriteStdin
FwdTake ==
  /\ Live /\ fpc = "range" /\ stdinCh.len > 0
  /\ stdinCh' = [stdinCh EXCEPT !.len = @ - 1]
  /\ fpc' = "writing"
  /\ UNCHANGED <<notRun, hpc, containerID, cleanupDone, sent, status, errCh, heartbeatCh,
                 sinceHeartbeat, tickPending, hbpc, rpc, inbox, clientState,
                 ctxDone, panicked, c, term, waitLeft, hist, nStdin>>

\* WriteStdin returns: the runner read the pipe, or the write failed (the
\* error is ignored).  While the runner does not read its stdin the write
\* blocks (Container.WriteStdin, part_001:855-881).
FwdWritten ==
  /\ Live /\ fpc = "writing"
  /\ fpc' = "range"
  /\ UNCHANGED <<notRun, hpc, containerID, cleanupDone, sent, status, errCh, stdinCh,
                 heartbeatCh, sinceHeartbeat, tickPending, hbpc, rpc, inbox,
                 clientState, ctxDone, panicked, c, term, waitLeft, hist, nStdin>>

\* the range loop ends: stdinCh is closed and drained
FwdEnd ==
  /\ Live /\ fpc = "range" /\ stdinCh.len = 0 /\ stdinCh.closed
  /\ fpc' = "stopped"
  /\ UNCHANGED <<notRun, hpc, containerID, cleanupDone, sent, status, errCh, stdinCh,
                 heartbeatCh, sinceHeartbeat, tickPending, hbpc, rpc, inbox,
                 clientState, ctxDone, panicked, c, term, waitLeft, hist, nStdin>>

(***************************************************************************)
(* Time.                                                                   *)
(***************************************************************************)
\* the client is due to write a Heartbeat before more time passes
HeartbeatDue ==
  /\ status = "open" /\ CreatedSent /\ clientState = "open" /\ ~ctxDone
  /\ hist.sinceClientHb >= ClientHeartbeatEvery

\* 5 seconds pass; with punctual = TRUE the client is one that writes a
\* Heartbeat at least every 15 s (part_002:60-69)
Tick(punctual) ==
  /\ Live /\ ~Urgent /\ TimersRunning
  /\ punctual => ~HeartbeatDue
  /\ sinceHeartbeat' = IF hbpc = "run"
                       THEN Min(sinceHeartbeat + 1, HeartbeatTimeout + 1)
                       ELSE sinceHeartbeat
  /\ tickPending' = (hbpc = "run")
  /\ waitLeft' = IF hpc = "wait" THEN waitLeft - 1 ELSE waitLeft
  /\ term' = [k \in Callers |->
                IF term[k].pc = "wait" THEN [term[k] EXCEPT !.left = @ - 1]
                ELSE term[k]]
  /\ c' = IF c.registered /\ c.cleanupAfterSet
          THEN [c EXCEPT !.finishAge = Min(@ + 1, CleanupAfter)] ELSE c
  /\ hist' = IF punctual /\ status = "open" /\ CreatedSent
             THEN [hist EXCEPT !.sinceClientHb = Min(@ + 1, ClientHeartbeatEvery)]
             ELSE hist
  /\ UNCHANGED <<notRun, hpc, containerID, cleanupDone, sent, status, errCh, stdinCh,
                 heartbeatCh, hbpc, rpc, fpc, inbox, clientState, ctxDone,
                 panicked, nStdin>>

\* With at most MaxStdin Stdin requests stdinCh never fills, so the blocked
\* send (RecvStdinUnblocked) is left to SpecRunPunctual.
NextRun ==
  \/ \E m \in ClientMsgs : ClientSend(m, MaxStdin)
  \/ ClientCloseSend
  \/ CtxCancel
  \/ RecvFirst
  \/ CreateContainer
  \/ SendCreated
  \/ LoopOutput
  \/ LoopChClosed
  \/ LoopErr
  \/ LoopCtxDone
  \/ WaitExit
  \/ WaitTimedOut
  \/ Deferred
  \/ DeferTerminated
  \/ \E code \in ExitCodes : ProcExit(code)
  \/ MonitorExit
  \/ cleanupExitedContainers
  \/ readOutputEnds
  \/ readOutput
  \/ Stop
  \/ HbTick
  \/ HbBeat
  \/ HbCtxDone
  \/ RecvEnd
  \/ RecvStdin
  \/ RecvCloseStdin
  \/ RecvHeartbeat
  \/ RecvTerminate
  \/ RecvTerminated
  \/ FwdTake
  \/ FwdWritten
  \/ FwdEnd
  \/ Tick(FALSE)

InitRun == RunInit /\ RunnerInit /\ PolicyIdle /\ PoolInit /\ ServerInit /\ ManagerIdle

SpecRun == InitRun /\ [][NextRun]_vars

\* A stream whose client writes a Heartbeat at least every 15 s and otherwise
\* only Stdin and CloseStdin, and neither cancels nor half-closes.  Without a
\* half-close, Terminate or cancellation the handler reaches label done only
\* through a closed broadcast channel, when the workload is no longer
\* registered: WaitContainer then fails at once (WaitExit and WaitTimedOut do
\* not occur).
PunctualMsgs == CreateMsgs \cup StreamMsgs

NextRunPunctual ==
  \/ \E m \in PunctualMsgs : ClientSend(m, MaxStdinFlood)
  \/ RecvFirst
  \/ CreateContainer
  \/ SendCreated
  \/ LoopOutput
  \/ LoopChClosed
  \/ LoopErr
  \/ Deferred
  \/ DeferTerminated
  \/ \E code \in ExitCodes : ProcExit(code)
  \/ MonitorExit
  \/ cleanupExitedContainers
  \/ readOutputEnds
  \/ HbTick
  \/ HbBeat
  \/ RecvStdin
  \/ RecvStdinUnblocked
  \/ RecvCloseStdin
  \/ RecvHeartbeat
  \/ FwdTake
  \/ FwdWritten
  \/ FwdEnd
  \/ Tick(TRUE)

SpecRunPunctual == InitRun /\ [][NextRunPunctual]_vars

(***************************************************************************)
(* Claims about the Run stream.                                            *)
(***************************************************************************)
\* C1: once Created was sent, if the stream context is cancelled while the
\* workload is still running, the handler invokes forced termination before
\* it returns, and when it has returned the workload is no longer running.
C1_CancelTerminatesWorkload ==
  (hpc = "returned" /\ hist.cancelledRunning) =>
     /\ hist.termCalls > 0 \/ ~c.alive
     /\ ~WorkloadRunning

\* C2: once the heartbeat monitor has found no Heartbeat for more than 30 s,
\* the stream is closed with DeadlineExceeded and the workload is terminated
\* (stated for streams that were not cancelled from outside meanwhile).
C2_HeartbeatTimeoutCloses ==
  (hpc = "returned" /\ hist.deadlineFired /\ ~hist.cancelled) =>
     /\ status = "DeadlineExceeded"
     /\ ~WorkloadRunning

\* C7: for a client that writes a Heartbeat at least every 15 s after Created,
\* the heartbeat monitor never reports a timeout and the stream is never
\* closed with DeadlineExceeded, whatever Stdin and CloseStdin it interleaves.
C7_PunctualClientNeverTimedOut ==
  ~hist.deadlineFired /\ status # "DeadlineExceeded"

\* C8: a stream on which Created was sent does not end without Exit, Exit is
\* its last server message, and nothing is sent after Exit (stated for
\* streams that were not cancelled, on which Exit can still be delivered).
C8_ExitIsLast ==
  /\ (hpc = "returned" /\ CreatedSent /\ ~hist.cancelled) => Last(sent) = "Exit"
  /\ \A i \in 1..Len(sent) : sent[i] = "Exit" => i = Len(sent)

\* C9: the first server message on a Run stream is Created.
C9_CreatedIsFirst == sent # <<>> => sent[1] = "Created"

\* a stream that carried Created, output and Exit
C9_Witness ==
  /\ hpc = "returned" /\ Len(sent) >= 3
  /\ sent[1] = "Created" /\ Last(sent) = "Exit"

(***************************************************************************)
(* Claims about network policy.                                            *)
(***************************************************************************)
\* bit j (1 = most significant) of an address
Bit(ip, j) == (ip[((j - 1) \div 8) + 1] \div Pow2(7 - ((j - 1) % 8))) % 2

\* two CIDR blocks have an address in common: same family and the same
\* leading bits as far as the shorter prefix goes
RangesIntersect(n1, n2) ==
  /\ Len(n1.ip) = Len(n2.ip)
  /\ \A j \in 1..Min(n1.bits, n2.bits) : Bit(n1.ip, j) = Bit(n2.ip, j)

\* block n1 includes block n2
RangeCovers(n1, n2) == RangesIntersect(n1, n2) /\ n1.bits <= n2.bits

Net(s) == ParseCIDR(s).net

MandatoryNets == {Net(MandatoryBlockedRanges[i]) : i \in DOMAIN MandatoryBlockedRanges}

FamilyOf(n) == IF Len(n.ip) = 4 THEN 4 ELSE 6

ExplicitAll(s) == s = AllIPv4 \/ s = AllIPv6

Validated == pol.pc \in {"validated", "built", "applied", "applyFailed"}

\* rule r may let a packet to some address of block m through
MayAccept(r, m) ==
  /\ r.verdict = "ACCEPT" /\ r.origin \in {"whitelist", "default"}
  /\ r.fam = FamilyOf(m)
  /\ r.hasDst => RangesIntersect(Net(r.dst), m)

\* rule r drops every packet to block m
DropsAll(r, m) ==
  /\ r.verdict = "DROP" /\ r.proto = "all" /\ r.fam = FamilyOf(m)
  /\ r.hasDst => RangeCovers(Net(r.dst), m)

\* C4: in the rules emitted for a validated policy, every whitelist ACCEPT
\* and every final ACCEPT that could let traffic to a mandatory-block range
\* through comes after a DROP of that range.
C4_MandatoryDropsComeFirst ==
  pol.pc = "applied" =>
    \A m \in MandatoryNets : \A j \in DOMAIN pol.rules :
       MayAccept(pol.rules[j], m) =>
          \E i \in 1..(j - 1) : DropsAll(pol.rules[i], m)

\* C5 as stated: after EnforceSecurityRules succeeded no whitelist entry
\* but the explicit 0.0.0.0/0 or ::/0 overlaps a mandatory-block range, and
\* every whitelist entry emitted to the firewall is disjoint from every
\* mandatory-block range.
C5_AsStated ==
  /\ Validated =>
       \A i \in DOMAIN pol.cfg.Whitelist : \A m \in MandatoryNets :
          ~ExplicitAll(pol.cfg.Whitelist[i].CIDR) =>
             ~RangesIntersect(Net(pol.cfg.Whitelist[i].CIDR), m)
  /\ \A j \in DOMAIN pol.rules : \A m \in MandatoryNets :
       pol.rules[j].origin = "whitelist" =>
          ~RangesIntersect(Net(pol.rules[j].dst), m)

\* C5 (amended): after EnforceSecurityRules succeeded no whitelist entry but
\* the explicit 0.0.0.0/0 or ::/0 overlaps a mandatory-block range, and every
\* whitelist entry emitted to the firewall other than 0.0.0.0/0 and ::/0 is
\* disjoint from every mandatory-block range.
C5_WhitelistDisjoint ==
  /\ Validated =>
       \A i \in DOMAIN pol.cfg.Whitelist : \A m \in MandatoryNets :
          ~ExplicitAll(pol.cfg.Whitelist[i].CIDR) =>
             ~RangesIntersect(Net(pol.cfg.Whitelist[i].CIDR), m)
  /\ \A j \in DOMAIN pol.rules : \A m \in MandatoryNets :
       (pol.rules[j].origin = "whitelist" /\ ~ExplicitAll(pol.rules[j].dst)) =>
          ~RangesIntersect(Net(pol.rules[j].dst), m)

\* a validated whitelist of two entries, one of them not an all-address
\* entry, was emitted to the firewall
C5_Witness ==
  /\ pol.pc = "applied" /\ Len(pol.cfg.Whitelist) = 2
  /\ \E j \in DOMAIN pol.rules :
       pol.rules[j].origin = "whitelist" /\ ~ExplicitAll(pol.rules[j].dst)
  /\ \E j \in DOMAIN pol.rules :
       pol.rules[j].origin = "whitelist" /\ ExplicitAll(pol.rules[j].dst)

(***************************************************************************)
(* Claims about the network pool.                                          *)
(***************************************************************************)
\* C6: a lease has at most one holder: it is handed to a workload only while
\* no other workload that was handed it still holds it, whatever the
\* interleaving of Acquire, Release and cleanup.
C6_SingleHolder ==
  \A n \in Names :
     /\ Cardinality(grant[n]) <= 1
     /\ nets[n].present =>
          grant[n] = IF nets[n].CurrentContainer = None THEN {}
                     ELSE {nets[n].CurrentContainer}

\* two Acquire calls for the same configHash are in progress at once, one of
\* them having taken over a pooled network
C6_Witness ==
  \E w1 \in Workloads, w2 \in Workloads :
     /\ w1 # w2
     /\ call[w1].op = "acquire" /\ call[w1].pc = "persist" /\ call[w1].reused
     /\ call[w2].op = "acquire" /\ call[w2].pc = "persist"
     /\ call[w1].hash = call[w2].hash
     /\ call[w1].net # call[w2].net

\* what C10 says of an Acquire by w that found network n pooled: its effects
\* when the lock is dropped, and its result when the call has returned
ReusedAs(w, n) ==
  /\ call[w].net = n /\ call[w].reused
  /\ (call[w].pc = "persist" /\ nets[n].present) =>
       /\ nets[n].CurrentContainer = w
       /\ ~nets[n].CleanupAt
       /\ nets[n].ReuseCount = call[w].old + 1
       /\ \A i \in DOMAIN configIndex[call[w].hash] : configIndex[call[w].hash][i] # n
  /\ call[w].pc = "idle" => call[w].err = ""

SoleReuse(w) ==
  /\ call[w].op = "acquire"
  /\ Cardinality(call[w].pooled) = 1
  /\ call[w].pc = "persist" \/ call[w].err = ""

C11_DistinctSubnets ==
  \A a \in alloc, b \in alloc : a.hash # b.hash => a.subnet # b.subnet

\* the last call of w was Release(w, n, force=true) and returned cleanedUp=true
ForcedOut(w, n) ==
  /\ call[w].op = "release" /\ call[w].pc = "idle"
  /\ call[w].cleanedUp /\ call[w].err = "" /\ call[w].net = n

\* C12: a successful Release(w, n, force=true) leaves no engine network, no
\* lease n and no configIndex entry of n behind and returns cleanedUp=true;
\* the same Release repeated returns "not found" and changes nothing.
C12_ForcedReleaseThenNotFound ==
  [][\A w \in Workloads, n \in Names :
       ForcedOut(w, n) =>
         /\ ~nets[n].present /\ ~nets[n].docker
         /\ \A h \in Hashes : \A i \in DOMAIN configIndex[h] : configIndex[h][i] # n
         /\ ReleaseLocked(w, n, TRUE) =>
              /\ call'[w].err = "notfound" /\ call'[w].pc = "idle"
              /\ UNCHANGED <<nets, configIndex, store>>]_vars

\* a forced Release returned cleanedUp=true and the same Release, repeated, has
\* returned "not found"
C12_Witness ==
  \E w \in Workloads :
     call[w].op = "release" /\ call[w].err = "notfound" /\ call[w].repeat

\* the step is the cleanup cycle deleting the lease n it had noted
CleanupDeletes(n) ==
  /\ cl.pc = "items" /\ n \in cl.toCleanup
  /\ cl'.toCleanup = cl.toCleanup \ {n}
  /\ nets[n].present /\ ~nets'[n].present

\* C13: a cleanup cycle removes only leases that have no holder and whose
\* cleanupAt has passed, and leaves every other lease untouched.
C13_CleanupRemovesOnlyExpired ==
  [][\A n \in Names :
       CleanupDeletes(n) =>
         /\ nets[n].CurrentContainer = None
         /\ nets[n].CleanupAt /\ nets[n].expired]_vars

\* C15: pool operations are atomic with respect to each other, so none acts
\* on a state another has changed meanwhile: a lease that a workload holds
\* keeps its entry and its engine network.
C15_HeldLeaseKeepsNetwork ==
  \A n \in Names : grant[n] # {} => nets[n].present /\ nets[n].docker

\* Acquire has returned n to w with success, and the pool still holds the
\* lease for w in memory
Acknowledged(w, n) ==
  /\ call[w].op = "acquire" /\ call[w].pc = "idle" /\ call[w].err = ""
  /\ call[w].net = n
  /\ nets[n].present /\ nets[n].CurrentContainer = w

\* C14: when Acquire has returned success, the state file on disk contains a
\* state that includes the lease it gave out, also when the cleanup cycle
\* persists beside it.
C14_AcknowledgedIsOnDisk ==
  \A w \in Workloads, n \in Names :
    Acknowledged(w, n) =>
      /\ store.disk.exists
      /\ n \in DOMAIN store.disk.networks
      /\ store.disk.networks[n].current_container = w

\* no call and no cleanup cycle is under way, the state file holds the pool's
\* state as it is now, and Docker lists the network of every entry
JustPersisted ==
  /\ \A w \in Workloads : call[w].pc = "idle"
  /\ cl.pc = "idle"
  /\ store.disk = marshal
  /\ \A n \in Names : nets[n].present => nets[n].docker

\* the Bastion restarts and loads the state file
Reloads == \E order \in Orders, late \in BOOLEAN : Restart(order, late)

\* the entries as the state file would hold them are the same before and
\* after the step
SameNetworks ==
  /\ DOMAIN marshal'.networks = DOMAIN marshal.networks
  /\ \A n \in DOMAIN marshal.networks :
       [marshal'.networks[n] EXCEPT !.passed = FALSE]
         = [marshal.networks[n] EXCEPT !.passed = FALSE]

\* C16: persisting a reachable pool state and reloading it, with every Docker
\* network still there, gives back the same networks and the same
\* config_index; the index built anew on load equals the stored one.
C16_ReloadIsIdentity ==
  [][JustPersisted /\ Reloads =>
       SameNetworks /\ configIndex' = store.disk.config_index]_vars

\* n is listed under h in the index after the step
IndexedAfter(h, n) == \E i \in DOMAIN configIndex'[h] : configIndex'[h][i] = n

\* validateNetworks on the entries: those whose network Docker does not list
\* are dropped, the others are kept as the file has them
LoadKeepsListed ==
  \A n \in Names :
    IF n \in DOMAIN store.disk.networks /\ nets[n].docker
    THEN /\ nets'[n].present
         /\ [entryJSON(nets'[n]) EXCEPT !.passed = FALSE]
              = [store.disk.networks[n] EXCEPT !.passed = FALSE]
    ELSE ~nets'[n].present

C19_MalformedInputDoesNothing ==
  [][srv'.last # srv.last /\ srv'.last.invalid =>
       /\ srv'.last.ran = 0
       /\ srv'.chains = srv.chains /\ srv'.chainIPs = srv.chainIPs
       /\ UNCHANGED poolVars]_vars

\* C20: a Bastion operation answers a missing or malformed input with a
\* response that has success=false and an error text, not with a gRPC status
\* error.
C20_FailureInResponse ==
  srv.last.invalid \/ srv.last.missing =>
    /\ srv.last.status = "OK"
    /\ ~srv.last.Success
    /\ srv.last.Error # ""


(***************************************************************************)
(* C21: after CleanupChain(c) has returned success, chain c exists in      *)
(* neither address family, no FORWARD rule jumps to it and chainIPs has no *)
(* entry for c, whether or not a container IP was recorded for c.          *)
(***************************************************************************)
C21_CleanupChainRemovesChain ==
  \A n \in ValidChainNames :
    srv.last.op = "CleanupChain" /\ srv.last.Success
      => srv.chains[n] = NoChain /\ srv.chainIPs[n] = <<>>

(***************************************************************************)
(* C22: a SetupChain that fails leaves no chain it created and no FORWARD  *)
(* jump behind and records no container IP: the chains and chainIPs are    *)
(* what they were before the call.                                         *)
(***************************************************************************)
C22_FailedSetupChainLeavesNothing ==
  [][srv'.last.op = "SetupChain" /\ ~srv'.last.Success
       => srv'.chains = srv.chains /\ srv'.chainIPs = srv.chainIPs]_vars


(***************************************************************************)
(* C23: in the rules emitted for a validated configuration, under either   *)
(* default policy, traffic to an address of a private range is let through *)
(* only if a whitelist entry covers that address: the rest of the private  *)
(* range stays blocked.                                                    *)
(***************************************************************************)
Host(a) == [ip |-> a, bits |-> 8 * Len(a)]

\* addresses in the private ranges: inside and outside 10.0.1.0/24
PrivateProbes ==
  {Host(<<10, 0, 1, 5>>), Host(<<10, 9, 9, 9>>),
   Host(<<172, 16, 0, 1>>), Host(<<192, 168, 0, 1>>)}

\* rule r applies to every packet to host h
Matches(r, h) ==
  /\ r.fam = FamilyOf(h) /\ r.proto = "all"
  /\ r.hasDst => RangeCovers(Net(r.dst), h)

\* what the chain does with a packet to host h: the verdict of the first
\* rule that applies
Fate(rules, h) ==
  LET hits == {i \in DOMAIN rules : Matches(rules[i], h)}
  IN  IF hits = {} THEN "RETURN"
      ELSE rules[CHOOSE i \in hits : \A j \in hits : i <= j].verdict

\* some whitelist entry of the configuration covers host h
Whitelisted(cfg, h) ==
  \E i \in DOMAIN cfg.Whitelist :
     /\ ParseCIDR(cfg.Whitelist[i].CIDR).ok
     /\ RangeCovers(Net(cfg.Whitelist[i].CIDR), h)

C23_PrivateRemainderBlocked ==
  pol.pc = "applied" =>
    \A h \in PrivateProbes :
       ~Whitelisted(pol.cfg, h) => Fate(pol.rules, h) = "DROP"


(***************************************************************************)
(* C24: every DNS server for which an accept rule is emitted parses as an  *)
(* IP address and is not loopback, not link-local in either address family *)
(* and not one of 169.254.169.254, 168.63.129.16 and 100.100.100.200.      *)
(***************************************************************************)
\* 169.254.0.0/16 or fe80::/10
IsLinkLocal(ip) ==
  IF To4(ip) # <<>> THEN To4(ip)[1] = 169 /\ To4(ip)[2] = 254
  ELSE ip[1] = 254 /\ ip[2] \div 64 = 2

C24_DnsServersAreSafe ==
  \A j \in DOMAIN pol.rules :
     pol.rules[j].origin = "dnsServer" =>
        LET ip == pol.rules[j].dst.a
        IN  /\ Len(ip) \in {4, 16}
            /\ ~IsLoopback(ip)
            /\ ~IsLinkLocal(ip)
            /\ To4(ip) \notin MetadataIPs


(***************************************************************************)
(* C26: whenever a workload is in a terminal state (EXITED, FAILED or      *)
(* TERMINATED) its exitCode is set and its cleanupAfter is set, to         *)
(* finishedAt + 60 s, whichever of process exit or Terminate brought it    *)
(* there.  (monitor is the one place that sets exitCode, finishedAt and    *)
(* cleanupAfter, all three at once.)                                       *)
(***************************************************************************)
TerminalStates == {"EXITED", "FAILED", "TERMINATED"}

C26_TerminalHasCleanupAfter ==
  c.state \in TerminalStates => c.monitored /\ c.cleanupAfterSet


(***************************************************************************)
(* Claims about the Container Manager's registry.                          *)
(***************************************************************************)
\* C25: the number of workloads in the registry never exceeds the cap, also
\* when several Run streams create workloads concurrently.
C25_RegistryWithinCap ==
  Cardinality(Registered(mgr.containers)) <= MaxContainers

\* the registry is full and a stream that asked for a fresh ID was refused
\* by the cap check while two other streams hold their workloads
C25_Witness ==
  /\ Cardinality(Registered(mgr.containers)) = MaxContainers
  /\ \E s \in Streams :
       /\ mgr.streams[s].pc \in {"defer", "returned"}
       /\ mgr.streams[s].containerID = "" /\ mgr.streams[s].id = ""
  /\ Cardinality({s \in Streams : mgr.streams[s].created}) = MaxContainers

\* C27: a sweep removes exactly the workloads whose cleanupAfter has passed:
\* a workload that was started leaves the registry only in a sweep at or
\* after its cleanupAfter, a sweep removes every workload whose cleanupAfter
\* has passed, cleanupAfter is finishedAt + 60 s, so no workload that
\* finished 60 s or more before a sweep is in the registry after it; a
\* terminal workload whose result is not stored yet is about to get it
\* stored or to be deleted by the CreateContainer that registered it.
C27_Step(w, w2) ==
  /\ (w.registered /\ w.started /\ ~w2.registered)
       => /\ mgr.swept # mgr.now /\ mgr'.swept = mgr.now
          /\ w.cleanupAfter # -1 /\ w.cleanupAfter <= mgr.now
  /\ (mgr'.swept # mgr.swept /\ w.registered
         /\ w.cleanupAfter # -1 /\ w.cleanupAfter <= mgr.now)
       => ~w2.registered
  /\ (w2.registered /\ w2.monitored)
       => /\ w2.cleanupAfter = w2.finishedAt + CleanupDelay
          /\ w2.cleanupAfter > mgr'.swept
  /\ (w2.registered /\ w2.state \in TerminalStates /\ ~w2.monitored)
       => MonitorPending(w2) \/ mgr'.streams[w2.owner].pc = "start"

C30_FailedStreamAltersNothing ==
  [][\A s \in Streams :
       (/\ mgr.streams[s].pc = "defer" /\ mgr'.streams[s].pc = "returned"
        /\ ~mgr.streams[s].created)
          => mgr'.containers = mgr.containers]_vars


(***************************************************************************)
(* C28: the runner of every workload holds a bridge-network lease acquired *)
(* from the Network Pool, also when the bridge name is demoted to          *)
(* "bridge", and a runner that has torn its workload down has called       *)
(* ReleaseNetwork.                                                         *)
(***************************************************************************)
C28_RunnerHoldsLease ==
  /\ runner.docker # "none" => runner.acquired
  /\ (runner.pc \in {"returned", "ended"} /\ runner.path = "normal")
       => runner.released


(***************************************************************************)
(* C29: while a lease has a holder, no step removes the engine network     *)
(* that backs it and no step deletes the lease from the pool state, also   *)
(* when a cleanup cycle that selected the lease as expired runs beside an  *)
(* Acquire that reuses it.                                                 *)
(***************************************************************************)
C29_NoRemovalWhileHeld ==
  [][\A n \in Names :
       (nets[n].present /\ nets[n].CurrentContainer # None)
         => /\ nets'[n].present
            /\ nets[n].docker => nets'[n].docker]_vars

(***************************************************************************)
(* Claims about a workload that exits while its stream stays open.         *)
(***************************************************************************)
\* C31: when the runner process exited on its own while the stream was open
\* and the client kept sending Heartbeats without half-closing, the stream
\* does not end without Exit having been sent (stated for streams on which
\* the heartbeat monitor reported no timeout).
C31_OwnExitSendsExit ==
  (/\ hpc = "returned" /\ CreatedSent
   /\ c.monitored /\ c.pcode \in ExitCodes
   /\ hist.termCalls = 0 /\ ~hist.deadlineFired)
    => \E i \in 1..Len(sent) : sent[i] = "Exit"

(***************************************************************************)
(* Claims about the order of the compiled rules.                           *)
(***************************************************************************)
\* the step of ApplyRules that appended a rule, in the order of the steps
Stage(r) ==
  CASE r.origin = "bridge" -> 1
    [] r.origin = "security" -> 2
    [] r.origin \in {"dns", "dnsServer"} -> 3
    [] r.origin \in {"whitelist", "blacklist"} -> 4
    [] r.origin = "default" -> 5

\* ApplyRules ran on a policy whose mode it accepts (ipv6_test.go:311-313)
Emitted ==
  pol.pc \in {"applied", "applyFailed"} /\ pol.policy.Policy \in {"allow", "deny"}

EmbeddedDns == Cidr(<<127, 0, 0, 11>>, 32)

\* the last rule of the chain in family fam
LastOf(fam) ==
  pol.rules[CHOOSE i \in DOMAIN pol.rules :
              /\ pol.rules[i].fam = fam
              /\ \A j \in DOMAIN pol.rules : pol.rules[j].fam = fam => j <= i]

\* C32: ApplyRules appends the bridge-subnet DROPs, then the security drops
\* (with the 127.0.0.11 port-53 ACCEPTs before the IPv4 localhost DROP when
\* allowDns is set), then the DNS ACCEPTs, then the whitelist ACCEPTs (policy
\* deny) or the blacklist DROPs (policy allow); and on success the last rule
\* of the chain in each family is the default verdict, ACCEPT for allow and
\* DROP for deny.
C32_RulesInOrder ==
  Emitted =>
    /\ \A i, j \in DOMAIN pol.rules :
         i < j => Stage(pol.rules[i]) <= Stage(pol.rules[j])
    /\ \A i \in DOMAIN dockerBridgeSubnets :
         /\ i \in DOMAIN pol.rules
         /\ pol.rules[i].verdict = "DROP" /\ pol.rules[i].dst = dockerBridgeSubnets[i]
    /\ \A i \in DOMAIN pol.rules :
         LET r == pol.rules[i]
         IN  /\ r.origin = "bridge" => i \in DOMAIN dockerBridgeSubnets
             /\ (r.origin = "security" /\ r.verdict = "ACCEPT") =>
                   /\ pol.policy.AllowDns /\ r.dst = EmbeddedDns
                   /\ r.dport = OnePort(DnsPort)
                   /\ \A j \in DOMAIN pol.rules :
                        (pol.rules[j].origin = "security"
                           /\ pol.rules[j].verdict = "DROP") => i < j
             /\ r.origin \in {"dns", "dnsServer"} =>
                   r.verdict = "ACCEPT" /\ pol.policy.AllowDns
             /\ r.origin = "whitelist" =>
                   r.verdict = "ACCEPT" /\ pol.policy.Policy = "deny"
             /\ r.origin = "blacklist" =>
                   r.verdict = "DROP" /\ pol.policy.Policy = "allow"
    /\ (pol.policy.BlockMetadata /\ pol.policy.AllowDns) =>
          \E i \in DOMAIN pol.rules :
             pol.rules[i].origin = "security" /\ pol.rules[i].verdict = "ACCEPT"
    /\ pol.pc = "applied" =>
         \A fam \in {4, 6} :
            /\ LastOf(fam).origin = "default" /\ ~LastOf(fam).hasDst
            /\ LastOf(fam).proto = "all"
            /\ LastOf(fam).verdict =
                 IF pol.policy.Policy = "allow" THEN "ACCEPT" ELSE "DROP"

\* a deny policy with DNS, a DNS server and a whitelist entry with a port was
\* compiled, every step having appended rules
C32_Witness ==
  /\ pol.pc = "applied" /\ pol.policy.Policy = "deny"
  /\ \A stage \in 1..5 : \E i \in DOMAIN pol.rules : Stage(pol.rules[i]) = stage
  /\ \E i \in DOMAIN pol.rules : pol.rules[i].origin = "dnsServer"
  /\ \E i \in DOMAIN pol.rules :
       pol.rules[i].origin = "whitelist" /\ pol.rules[i].proto = "tcp"
  /\ \E i \in DOMAIN pol.rules :
       pol.rules[i].origin = "security" /\ pol.rules[i].verdict = "ACCEPT"

\* DROP rule d covers the destination of ACCEPT rule r: it is in r's family,
\* its destination block includes r's, and it matches r's protocol and ports
Covers(d, r) ==
  /\ d.verdict = "DROP" /\ d.fam = r.fam
  /\ RangeCovers(Net(d.dst), Net(r.dst))
  /\ \/ d.proto = "all"
     \/ /\ d.proto = r.proto
        /\ d.dport.lo <= r.dport.lo /\ r.dport.hi <= d.dport.hi

\* C33: in the chain compiled from a configuration that passed
\* EnforceSecurityRules, no ACCEPT rule is preceded by a DROP rule that covers
\* its destination.
C33_NoAcceptBehindDrop ==
  pol.pc = "applied" =>
    \A j \in DOMAIN pol.rules :
       pol.rules[j].verdict = "ACCEPT" =>
          \A i \in 1..(j - 1) : ~Covers(pol.rules[i], pol.rules[j])

(***************************************************************************)
(* Claims about configIndex and about failed pool calls.                   *)
(***************************************************************************)
\* name n is listed in configIndex[h]
Listed(h, n) == \E i \in DOMAIN configIndex[h] : configIndex[h][i] = n

\* a Pooled lease: no holder and a cleanupAt in the future
PooledLease(n) ==
  /\ nets[n].present /\ nets[n].CurrentContainer = None
  /\ nets[n].CleanupAt /\ ~nets[n].expired

C35_TerminalIsFinal ==
  [][/\ c.state \in TerminalStates => c'.state = c.state
     /\ c.state = "CREATED" => c'.state \in {"CREATED", "RUNNING"}
     /\ c.state = "RUNNING" => c'.state # "CREATED"]_vars

\* the call of w returns an error of the engine or of persist in this step
FailedReturn(w) ==
  /\ call[w].pc # "idle" /\ call'[w].pc = "idle"
  /\ call'[w].err \in {"create", "cleanup", "persist"}

\* C36: when Acquire or Release returns an error of an engine call or of
\* persist, the lease is as it was before the call: a lease its holder tried
\* to release is still held by that holder, and a pooled lease Acquire tried
\* to reuse is still without holder and listed in configIndex.
C36_FailedCallChangesNothing ==
  [][\A w \in Workloads :
       FailedReturn(w) =>
         LET n == call[w].net
         IN  /\ call[w].op = "release" =>
                  nets'[n].present /\ nets'[n].CurrentContainer = w
             /\ (call[w].op = "acquire" /\ call[w].reused) =>
                  /\ nets'[n].present /\ nets'[n].CurrentContainer = None
                  /\ \E i \in DOMAIN configIndex'[call[w].hash] :
                       configIndex'[call[w].hash][i] = n]_vars

(***************************************************************************)
(* Claims about the channels of a Run stream and of a workload.            *)
(***************************************************************************)
\* C37: whatever the client sends after Create, the receive goroutine never
\* sends on and never closes a stdinCh that is already closed: no goroutine
\* of the Run handler panics.
C37_StdinChNeverPanics == ~panicked

\* C38: Container.Close never closes the broadcast channels of a workload
\* while one of its readOutput goroutines can still send: no goroutine sends
\* on a closed broadcast channel.
C38_NoSendOnClosedBroadcast == ~hist.sentOnClosed

\* every SetupChain and CleanupChain call has returned
AllReturned == \A k \in Clients : chainCall[k].pc = "idle"

\* C39: for any interleaving of SetupChain and CleanupChain calls on one
\* chain name, once all calls have returned s.chainIPs has an entry for the
\* chain exactly when a FORWARD jump to the chain is installed
C39_EntryIffJump ==
  AllReturned =>
    \A n \in ValidChainNames : (srv.chainIPs[n] # <<>>) <=> srv.chains[n].forward

\* the number of hex characters of a text
RECURSIVE HexCount(_)
HexCount(text) ==
  IF text = <<>> THEN 0
  ELSE (IF IsHexChar(Head(text)) THEN 1 ELSE 0) + HexCount(Tail(text))

\* C40: the chain name derived from an ID with at least 16 hex characters is
\* ISO- followed by 16 hex digits and is accepted by ValidateChainName; for
\* an ID with fewer than 16 hex characters an error is returned
C40_ChainNameDerivation ==
  naming.pc = "checked" =>
    IF HexCount(naming.containerID) >= ChainHexLen
    THEN /\ ~naming.failed
         /\ Len(naming.chainName) = 4 + ChainHexLen
         /\ SubSeq(naming.chainName, 1, 4) = <<"I", "S", "O", "-">>
         /\ \A i \in 5 .. Len(naming.chainName) : IsHexChar(naming.chainName[i])
         /\ naming.accepted
    ELSE naming.failed

=============================================================================
